---- MODULE Spec2Model ----
(***************************************************************************)
(* RoomieSplit: the ledger kept by App.tsx (roommates, expenses, shared    *)
(* purchases) and the settlement engine of SettlementMatrix.tsx that is    *)
(* recomputed from it on every change.                                     *)
(*                                                                         *)
(* Money.  The source computes on JavaScript numbers.  The model computes  *)
(* on exact rationals, written as integer multiples of a tick, with        *)
(* Cent ticks to one hundredth of a rupee.  Every amount that enters the   *)
(* ledger is a multiple of a quarter cent, so the divisions by the number  *)
(* of roommates and by the size of a split (both at most 3 here) are       *)
(* exact; DivisionsExact states this.  Floating-point rounding noise is    *)
(* therefore not modelled; the 0.01 tolerances of the source are.          *)
(*                                                                         *)
(* Text.  Names, notes and item names are strings; the regular             *)
(* expressions and the key templates of the source are computed character  *)
(* by character.  An absent optional string (note, to) is the empty        *)
(* string: every test the source applies to them (!e.note, !to, e.note?.)  *)
(* treats undefined and "" alike.  An absent splitBetween is the empty     *)
(* sequence for the same reason; an absent perPersonAmount is Undefined.   *)
(* The names entered here contain neither '-' nor '|', the separators of   *)
(* the key templates, so distinct pairs have distinct keys.                *)
(*                                                                         *)
(* Ids.  Every record gets id Date.now().toString() from the server.  The  *)
(* ids of expenses and shared purchases are only ever compared in the      *)
(* delete handlers, so a record is identified by its position in its list. *)
(*                                                                         *)
(* Server.  fixedCosts is the fixedCosts of the data file and response the *)
(* last answer of the REST API.  They are followed in SpecStore, whose     *)
(* steps are the requests to the API and in which roommates, expenses and  *)
(* sharedPurchases are read as the lists of the data file; the other       *)
(* specifications follow the ledger alone and leave the two as they are.   *)
(*                                                                         *)
(* View.  startDate and endDate are the date range of SettlementMatrix.tsx *)
(* ("" for an end that is not set); the matrix and the instructions are    *)
(* computed from the records within the range.  The range is changed in    *)
(* SpecView only; everywhere else it stays unset and the view is the       *)
(* all-time view.                                                          *)
(*                                                                         *)
(* Paid status.  paidRoommateIds is the list of App.tsx of the roommates   *)
(* marked as having paid the fixed costs.  SpecPaid follows it together    *)
(* with the server: there roommates and paidRoommateIds are the state of   *)
(* the client, dataFile holds the roommates and the paidRoommateIds of the *)
(* server's data file, and calls holds the calls of the API that have been *)
(* made and not finished, each with what its handler captured.  A handler  *)
(* that awaits a call is three steps: the request is sent, the server      *)
(* handles it, the handler resumes with the answer.  No roommate is added  *)
(* in SpecPaid, so the id of a roommate is written as its name.  The other *)
(* specifications leave the three variables empty.                         *)
(***************************************************************************)
EXTENDS Integers, Sequences, FiniteSets, TLC

VARIABLES roommates, expenses, sharedPurchases, fixedCosts, response, startDate, endDate,
          paidRoommateIds, dataFile, calls

vars == <<roommates, expenses, sharedPurchases, fixedCosts, response, startDate, endDate,
          paidRoommateIds, dataFile, calls>>

\* the paid status: the client's list, the server's file and the calls between
paidVars == <<paidRoommateIds, dataFile, calls>>

-----------------------------------------------------------------------------
(* Money *)

Cent == 6 * 4

Rs(rupees, paise) == (rupees * 100 + paise) * Cent

Undefined == <<>>

-----------------------------------------------------------------------------
(* Strings *)

CharAt(s, i) == SubSeq(s, i, i)

UpperCaseLetters == "ABCDEFGHIJKLMNOPQRSTUVWXYZ"
LowerCaseLetters == "abcdefghijklmnopqrstuvwxyz"

\* the lower-case letter of every upper-case letter
LowerCaseOf ==
    [c \in { CharAt(UpperCaseLetters, i) : i \in 1..Len(UpperCaseLetters) } |->
        CharAt(LowerCaseLetters,
               CHOOSE i \in 1..Len(UpperCaseLetters) : CharAt(UpperCaseLetters, i) = c)]

toLowerCaseChar(c) == IF c \in DOMAIN LowerCaseOf THEN LowerCaseOf[c] ELSE c

RECURSIVE toLowerCase(_)
toLowerCase(s) ==
    IF s = "" THEN ""
    ELSE toLowerCaseChar(CharAt(s, 1)) \o toLowerCase(SubSeq(s, 2, Len(s)))

\* s.includes(sub)
includes(s, sub) ==
    \E p \in 1..(Len(s) - Len(sub) + 1) : SubSeq(s, p, p + Len(sub) - 1) = sub

\* the regular expression class \s, over the characters the model uses
IsSpace(c) == c \in {" ", "\t", "\n"}

\* what the regular expression . does not match
IsLineTerminator(c) == c = "\n"

RECURSIVE trimStart(_)
trimStart(s) ==
    IF s # "" /\ IsSpace(CharAt(s, 1)) THEN trimStart(SubSeq(s, 2, Len(s))) ELSE s

RECURSIVE trimEnd(_)
trimEnd(s) ==
    IF s # "" /\ IsSpace(CharAt(s, Len(s))) THEN trimEnd(SubSeq(s, 1, Len(s) - 1)) ELSE s

trim(s) == trimEnd(trimStart(s))

\* the least element of a non-empty set of integers
Least(S) == CHOOSE x \in S : \A y \in S : x <= y

\* two decimal digits
pad2(n) == IF n < 10 THEN "0" \o ToString(n) ELSE ToString(n)

\* Number.prototype.toFixed(2): round to the nearest hundredth and print it.
\* No amount of the model lies exactly between two hundredths.
toFixed2(amount) ==
    LET cents == (amount + (Cent \div 2)) \div Cent
    IN  ToString(cents \div 100) \o "." \o pad2(cents % 100)

-----------------------------------------------------------------------------
(* Regular expressions of the source *)

\* note.match(/Item:\s*(.+?)(?:\s*-|$)/i): <<match[1]>>, or <<>> for null.
\* The match starts at the leftmost "item:" (any case) that can be completed.
\* \s* is greedy and gives characters back one by one; the group is lazy, at
\* least one character, none a line terminator, and ends at the first place
\* that is followed by optional spaces and a '-', or that is the end.

\* \s*- matches at k
RECURSIVE DashAfterSpaces(_, _)
DashAfterSpaces(note, k) ==
    /\ k <= Len(note)
    /\ \/ CharAt(note, k) = "-"
       \/ IsSpace(CharAt(note, k)) /\ DashAfterSpaces(note, k + 1)

\* (?:\s*-|$) matches at k
ItemTailOk(note, k) == k > Len(note) \/ DashAfterSpaces(note, k)

\* the end of the group that starts at c, trying ends from e on; 0 if there is none
RECURSIVE ItemGroupEnd(_, _)
ItemGroupEnd(note, e) ==
    IF e > Len(note) \/ IsLineTerminator(CharAt(note, e)) THEN 0
    ELSE IF ItemTailOk(note, e + 1) THEN e
    ELSE ItemGroupEnd(note, e + 1)

\* the end of the run of spaces that starts at k
RECURSIVE SpacesEnd(_, _)
SpacesEnd(note, k) ==
    IF k <= Len(note) /\ IsSpace(CharAt(note, k)) THEN SpacesEnd(note, k + 1) ELSE k

\* the start of the group, trying starts from c down to least; 0 if there is none
RECURSIVE ItemGroupStart(_, _, _)
ItemGroupStart(note, c, least) ==
    IF c < least THEN 0
    ELSE IF ItemGroupEnd(note, c) # 0 THEN c
    ELSE ItemGroupStart(note, c - 1, least)

\* the match that starts at p or, failing that, further right
RECURSIVE ItemMatchFrom(_, _, _)
ItemMatchFrom(note, lower, p) ==
    IF p + 4 > Len(note) THEN <<>>
    ELSE IF SubSeq(lower, p, p + 4) # "item:" THEN ItemMatchFrom(note, lower, p + 1)
    ELSE LET c == ItemGroupStart(note, SpacesEnd(note, p + 5), p + 5)
         IN  IF c = 0 THEN ItemMatchFrom(note, lower, p + 1)
             ELSE <<SubSeq(note, c, ItemGroupEnd(note, c))>>

matchItem(note) == ItemMatchFrom(note, toLowerCase(note), 1)

\* note.match(/Settlement payment to (.+)/): <<match[1]>>, or <<>> for null.
SettlementPrefix == "Settlement payment to "

SettlementMatchStarts(note) ==
    { p \in 1..(Len(note) - Len(SettlementPrefix)) :
        /\ SubSeq(note, p, p + Len(SettlementPrefix) - 1) = SettlementPrefix
        /\ ~IsLineTerminator(CharAt(note, p + Len(SettlementPrefix))) }

matchSettlementNote(note) ==
    IF SettlementMatchStarts(note) = {} THEN <<>>
    ELSE LET c == Least(SettlementMatchStarts(note)) + Len(SettlementPrefix)
             stops == { x \in c..Len(note) : IsLineTerminator(CharAt(note, x)) }
             e == IF stops = {} THEN Len(note) ELSE Least(stops) - 1
         IN  <<SubSeq(note, c, e)>>

-----------------------------------------------------------------------------
(* Map<string, number> *)

EmptyMap == [k \in {} |-> 0]

\* map.get(key) || 0
Get(map, key) == IF key \in DOMAIN map THEN map[key] ELSE 0

\* map.set(key, value)
Set(map, key, value) ==
    [k \in (DOMAIN map) \cup {key} |-> IF k = key THEN value ELSE map[k]]

-----------------------------------------------------------------------------
(* The settlement engine: SettlementMatrix.tsx *)

\* m = roommates.length; the component renders nothing for m = 0
m == Len(roommates)

Settlement == "Settlement"

\* key of a pair in paymentsMap and sharedPurchaseDebts: `${a}-${b}`
PairKey(a, b) == a \o "-" \o b

\* `${payer}|${amount.toFixed(2)}|${itemName}`
ItemKey(payer, amount, itemName) == payer \o "|" \o toFixed2(amount) \o "|" \o itemName

getLikelyItemSplitKeys(purchaseList) ==
    { ItemKey(purchaseList[i].payer, purchaseList[i].amount,
              toLowerCase(purchaseList[i].itemName)) : i \in 1..Len(purchaseList) }

\* mutant: the item name of the note is not lower-cased
isExpenseDuplicate_CaseSensitive(e, keys) ==
    IF e.note = "" \/ ~includes(toLowerCase(e.note), "item:") THEN FALSE
    ELSE LET match == matchItem(e.note)
         IN  IF match = <<>> THEN FALSE
             ELSE ItemKey(e.name, e.amount, trim(match[1])) \in keys

isExpenseDuplicate(e, keys) ==
    IF e.note = "" \/ ~includes(toLowerCase(e.note), "item:") THEN FALSE
    ELSE LET match == matchItem(e.note)
         IN  IF match = <<>> THEN FALSE
             ELSE ItemKey(e.name, e.amount, toLowerCase(trim(match[1]))) \in keys

\* mutant: the note of a settlement without `to` is not consulted
SettlementRecipient_ToOnly(e) == e.to

\* `to` of a settlement: e.to, else the name in the note, else "" (undefined)
SettlementRecipient(e) ==
    IF e.to # "" THEN e.to
    ELSE LET match == matchSettlementNote(e.note)
         IN  IF match = <<>> THEN "" ELSE match[1]

\* mutant: a duplicate is left out of the split but still shown as spent
ExpenseStep_ShowDuplicates(acc, e, keys) ==
    IF e.type # Settlement
    THEN IF isExpenseDuplicate(e, keys)
         THEN [acc EXCEPT !.display = Set(@, e.name, Get(@, e.name) + e.amount)]
         ELSE [acc EXCEPT
                 !.spending = Set(@, e.name, Get(@, e.name) + e.amount),
                 !.display = Set(@, e.name, Get(@, e.name) + e.amount)]
    ELSE LET to == SettlementRecipient(e)
         IN  IF to # ""
             THEN [acc EXCEPT
                     !.payments = Set(@, PairKey(e.name, to),
                                      Get(@, PairKey(e.name, to)) + e.amount)]
             ELSE acc

\* mutant: a payment is booked under the recipient-payer key
ExpenseStep_ReversedKey(acc, e, keys) ==
    IF e.type # Settlement
    THEN IF isExpenseDuplicate(e, keys) THEN acc
         ELSE [acc EXCEPT
                 !.spending = Set(@, e.name, Get(@, e.name) + e.amount),
                 !.display = Set(@, e.name, Get(@, e.name) + e.amount)]
    ELSE LET to == SettlementRecipient(e)
         IN  IF to # ""
             THEN [acc EXCEPT
                     !.payments = Set(@, PairKey(to, e.name),
                                      Get(@, PairKey(to, e.name)) + e.amount)]
             ELSE acc

\* mutant: a settlement is also counted as spending to be split
ExpenseStep_SplitSettlements(acc, e, keys) ==
    LET to == SettlementRecipient(e)
        paid == IF e.type = Settlement /\ to # ""
                THEN [acc EXCEPT
                        !.payments = Set(@, PairKey(e.name, to),
                                         Get(@, PairKey(e.name, to)) + e.amount)]
                ELSE acc
    IN  IF isExpenseDuplicate(e, keys) THEN paid
        ELSE [paid EXCEPT
                !.spending = Set(@, e.name, Get(@, e.name) + e.amount),
                !.display = Set(@, e.name, Get(@, e.name) + e.amount)]

\* one turn of expenseList.forEach in calculateSettlements
ExpenseStep(acc, e, keys) ==
    IF e.type # Settlement
    THEN IF isExpenseDuplicate(e, keys) THEN acc
         ELSE [acc EXCEPT
                 !.spending = Set(@, e.name, Get(@, e.name) + e.amount),
                 !.display = Set(@, e.name, Get(@, e.name) + e.amount)]
    ELSE LET to == SettlementRecipient(e)
         IN  IF to # ""
             THEN [acc EXCEPT
                     !.payments = Set(@, PairKey(e.name, to),
                                      Get(@, PairKey(e.name, to)) + e.amount)]
             ELSE acc

RECURSIVE ExpenseLoop(_, _, _, _)
ExpenseLoop(acc, expenseList, i, keys) ==
    IF i > Len(expenseList) THEN acc
    ELSE ExpenseLoop(ExpenseStep(acc, expenseList[i], keys), expenseList, i + 1, keys)

\* purchase.perPersonAmount ?? (purchase.amount / purchase.splitBetween.length)
PerPerson(purchase) ==
    IF purchase.perPersonAmount # Undefined THEN purchase.perPersonAmount[1]
    ELSE purchase.amount \div Len(purchase.splitBetween)

\* mutant: the payer is charged a share of the own purchase
RECURSIVE SplitLoop_ChargePayer(_, _, _)
SplitLoop_ChargePayer(debts, purchase, k) ==
    IF k > Len(purchase.splitBetween) THEN debts
    ELSE LET debtKey == PairKey(purchase.splitBetween[k], purchase.payer)
         IN  SplitLoop_ChargePayer(
                 Set(debts, debtKey, Get(debts, debtKey) + PerPerson(purchase)),
                 purchase, k + 1)

\* purchase.splitBetween.forEach in calculateSettlements
RECURSIVE SplitLoop(_, _, _)
SplitLoop(debts, purchase, k) ==
    IF k > Len(purchase.splitBetween) THEN debts
    ELSE LET personName == purchase.splitBetween[k]
             debtKey == PairKey(personName, purchase.payer)
         IN  SplitLoop(IF personName # purchase.payer
                       THEN Set(debts, debtKey, Get(debts, debtKey) + PerPerson(purchase))
                       ELSE debts,
                       purchase, k + 1)

\* mutant: without a split the buyer is charged even when buyer and payer are the same
PurchaseStep_ChargeSelf(acc, purchase) ==
    LET shown == [acc EXCEPT
                    !.display = Set(@, purchase.payer, Get(@, purchase.payer) + purchase.amount)]
    IN  IF Len(purchase.splitBetween) > 0
        THEN [shown EXCEPT !.debts = SplitLoop(@, purchase, 1)]
        ELSE [shown EXCEPT
                !.debts = Set(@, PairKey(purchase.buyer, purchase.payer),
                              Get(@, PairKey(purchase.buyer, purchase.payer)) + purchase.amount)]

\* one turn of purchaseList.forEach in calculateSettlements
PurchaseStep(acc, purchase) ==
    LET shown == [acc EXCEPT
                    !.display = Set(@, purchase.payer, Get(@, purchase.payer) + purchase.amount)]
    IN  IF Len(purchase.splitBetween) > 0
        THEN [shown EXCEPT !.debts = SplitLoop(@, purchase, 1)]
        ELSE IF purchase.buyer # purchase.payer
             THEN [shown EXCEPT
                     !.debts = Set(@, PairKey(purchase.buyer, purchase.payer),
                                   Get(@, PairKey(purchase.buyer, purchase.payer)) + purchase.amount)]
             ELSE shown

RECURSIVE PurchaseLoop(_, _, _)
PurchaseLoop(acc, purchaseList, i) ==
    IF i > Len(purchaseList) THEN acc
    ELSE PurchaseLoop(PurchaseStep(acc, purchaseList[i]), purchaseList, i + 1)

\* the maps start at 0 for every roommate
ZeroMap == [n \in { roommates[i].name : i \in 1..Len(roommates) } |-> 0]

calculateSettlements(expenseList, purchaseList) ==
    LET start == [spending |-> ZeroMap, display |-> ZeroMap,
                  payments |-> EmptyMap, debts |-> EmptyMap]
        afterExpenses == ExpenseLoop(start, expenseList, 1,
                                     getLikelyItemSplitKeys(purchaseList))
        done == PurchaseLoop(afterExpenses, purchaseList, 1)
    IN  [purchaseSpending |-> done.spending,
         purchaseSpendingDisplay |-> done.display,
         directPayments |-> done.payments,
         sharedPurchaseDebts |-> done.debts]

\* mutant: what j paid i is subtracted instead of added
getDebt_SignSlip(rowName, colName, spending, payments, sharedPurchaseDebts) ==
    IF rowName = colName THEN 0
    ELSE LET baseDebt == (Get(spending, colName) \div m) - (Get(spending, rowName) \div m)
             iPaidJ == Get(payments, PairKey(rowName, colName))
             jPaidI == Get(payments, PairKey(colName, rowName))
             sharedDebt == Get(sharedPurchaseDebts, PairKey(rowName, colName))
                           - Get(sharedPurchaseDebts, PairKey(colName, rowName))
         IN  baseDebt - iPaidJ - jPaidI + sharedDebt

\* mutant: the item debts of the other direction are not set off
getDebt_OneWayItems(rowName, colName, spending, payments, sharedPurchaseDebts) ==
    IF rowName = colName THEN 0
    ELSE LET baseDebt == (Get(spending, colName) \div m) - (Get(spending, rowName) \div m)
             iPaidJ == Get(payments, PairKey(rowName, colName))
             jPaidI == Get(payments, PairKey(colName, rowName))
             sharedDebt == Get(sharedPurchaseDebts, PairKey(rowName, colName))
         IN  baseDebt - iPaidJ + jPaidI + sharedDebt

\* mutant: the difference in spending is halved between the two of the pair
getDebt_PairShare(rowName, colName, spending, payments, sharedPurchaseDebts) ==
    IF rowName = colName THEN 0
    ELSE LET baseDebt == (Get(spending, colName) - Get(spending, rowName)) \div 2
             iPaidJ == Get(payments, PairKey(rowName, colName))
             jPaidI == Get(payments, PairKey(colName, rowName))
             sharedDebt == Get(sharedPurchaseDebts, PairKey(rowName, colName))
                           - Get(sharedPurchaseDebts, PairKey(colName, rowName))
         IN  baseDebt - iPaidJ + jPaidI + sharedDebt

\* mutant: the difference in spending is not divided by the number of roommates
getDebt_Undivided(rowName, colName, spending, payments, sharedPurchaseDebts) ==
    IF rowName = colName THEN 0
    ELSE LET baseDebt == Get(spending, colName) - Get(spending, rowName)
             iPaidJ == Get(payments, PairKey(rowName, colName))
             jPaidI == Get(payments, PairKey(colName, rowName))
             sharedDebt == Get(sharedPurchaseDebts, PairKey(rowName, colName))
                           - Get(sharedPurchaseDebts, PairKey(colName, rowName))
         IN  baseDebt - iPaidJ + jPaidI + sharedDebt

getDebt(rowName, colName, spending, payments, sharedPurchaseDebts) ==
    IF rowName = colName THEN 0
    ELSE LET jSpent == Get(spending, colName)
             iSpent == Get(spending, rowName)
             baseDebt == (jSpent \div m) - (iSpent \div m)
             iPaidJ == Get(payments, PairKey(rowName, colName))
             jPaidI == Get(payments, PairKey(colName, rowName))
             sharedDebt == Get(sharedPurchaseDebts, PairKey(rowName, colName))
                           - Get(sharedPurchaseDebts, PairKey(colName, rowName))
         IN  baseDebt - iPaidJ + jPaidI + sharedDebt

\* the sum of the amounts of a sequence of records
RECURSIVE SumAmounts(_)
SumAmounts(list) ==
    IF list = <<>> THEN 0 ELSE Head(list).amount + SumAmounts(Tail(list))

\* the keys of expensesByType, in insertion order
RECURSIVE TypesInOrder(_, _)
TypesInOrder(list, seen) ==
    IF list = <<>> THEN seen
    ELSE TypesInOrder(Tail(list),
                      IF \E k \in 1..Len(seen) : seen[k] = Head(list).type
                      THEN seen ELSE Append(seen, Head(list).type))

\* details part 1: the creditor's general expenses, one line per type
GeneralDetails(creditorName, expenseList, splitKeys) ==
    LET colExpenses == SelectSeq(expenseList,
                           LAMBDA e : /\ e.name = creditorName
                                      /\ e.type # Settlement
                                      /\ ~isExpenseDuplicate(e, splitKeys))
        types == TypesInOrder(colExpenses, <<>>)
    IN  [k \in 1..Len(types) |->
            LET totalAmount == SumAmounts(SelectSeq(colExpenses,
                                                    LAMBDA e : e.type = types[k]))
            IN  [type |-> types[k],
                 amount |-> totalAmount \div m,
                 totalAmount |-> totalAmount]]

\* mutant: every purchase the creditor paid is listed, whoever it was split between
PurchaseIsRelevant_AnyDebtor(p, debtorName, creditorName) ==
    p.payer = creditorName /\ debtorName # creditorName

\* isRelevant, for one purchase of details part 2
PurchaseIsRelevant(p, debtorName, creditorName) ==
    /\ p.payer = creditorName
    /\ IF Len(p.splitBetween) > 0
       THEN (\E k \in 1..Len(p.splitBetween) : p.splitBetween[k] = debtorName)
            /\ debtorName # creditorName
       ELSE p.buyer = debtorName /\ debtorName # creditorName

\* details part 2: one line per shared purchase the debtor owes the creditor for
PurchaseDetails(debtorName, creditorName, purchaseList) ==
    LET relevant == SelectSeq(purchaseList,
                        LAMBDA p : PurchaseIsRelevant(p, debtorName, creditorName))
    IN  [k \in 1..Len(relevant) |->
            [type |-> "Specific/Split Items",
             amount |-> IF Len(relevant[k].splitBetween) > 0
                        THEN PerPerson(relevant[k]) ELSE relevant[k].amount,
             totalAmount |-> relevant[k].amount]]

\* mutant: a debt of exactly 0.01 is emitted
ShouldEmit_AtThreshold(debt) == debt >= Cent

\* mutant: the negative mirror of a debt is emitted too
ShouldEmit_EitherSign(debt) == debt > Cent \/ debt < -Cent

\* "Only include positive debts"
ShouldEmit(debt) == debt > Cent

\* the (i, j) of the two nested loops, in the order they are visited
LoopPairs ==
    [k \in 1..(m * m) |-> <<((k - 1) \div m) + 1, ((k - 1) % m) + 1>>]

getSettlementInstructions(spending, payments, sharedDebts, expenseList, purchaseList) ==
    LET splitKeys == getLikelyItemSplitKeys(purchaseList)
        debtOf(pr) == getDebt(roommates[pr[1]].name, roommates[pr[2]].name,
                              spending, payments, sharedDebts)
        emitted == SelectSeq(LoopPairs, LAMBDA pr : pr[1] # pr[2] /\ ShouldEmit(debtOf(pr)))
    IN  [k \in 1..Len(emitted) |->
            [from |-> roommates[emitted[k][1]].name,
             to |-> roommates[emitted[k][2]].name,
             amount |-> debtOf(emitted[k]),
             expenseDetails |->
                 GeneralDetails(roommates[emitted[k][2]].name, expenseList, splitKeys)
                 \o PurchaseDetails(roommates[emitted[k][1]].name,
                                    roommates[emitted[k][2]].name, purchaseList)]]

-----------------------------------------------------------------------------
(* Dates: utils/dateUtils.ts and the date handling of the server *)

\* A date is a string, "DD-MM-YYYY" as the server stores it or "YYYY-MM-DD" as a
\* date input and older data files give it.  Years have four digits.  The clocks
\* of server and browser are at or east of UTC, where new Date("YYYY-MM-DD")
\* falls on the day it names.

Digits == "0123456789"

IsDigit(c) == \E i \in 1..Len(Digits) : CharAt(Digits, i) = c

DigitValue(c) == (CHOOSE i \in 1..Len(Digits) : CharAt(Digits, i) = c) - 1

\* dateString.split('-'), from position k on with cur the part begun
RECURSIVE SplitFrom(_, _, _)
SplitFrom(s, cur, k) ==
    IF k > Len(s) THEN <<cur>>
    ELSE IF CharAt(s, k) = "-" THEN <<cur>> \o SplitFrom(s, "", k + 1)
    ELSE SplitFrom(s, cur \o CharAt(s, k), k + 1)

split(s) == SplitFrom(s, "", 1)

\* parseInt(s, 10) of a string without sign or leading space: <<n>> for the
\* number its leading digits spell, <<>> for NaN
RECURSIVE ParseDigits(_, _, _)
ParseDigits(s, k, acc) ==
    IF k <= Len(s) /\ IsDigit(CharAt(s, k))
    THEN ParseDigits(s, k + 1, <<(IF acc = <<>> THEN 0 ELSE acc[1] * 10) + DigitValue(CharAt(s, k))>>)
    ELSE acc

parseInt(s) == ParseDigits(s, 1, <<>>)

IsLeapYear(year) == (year % 4 = 0 /\ year % 100 # 0) \/ year % 400 = 0

DaysInMonth(year, month) ==
    IF month = 2 THEN (IF IsLeapYear(year) THEN 29 ELSE 28)
    ELSE IF month \in {4, 6, 9, 11} THEN 30 ELSE 31

\* new Date(year, month - 1, day): a month or a day out of range runs over into
\* the neighbouring year or month
RECURSIVE NormalizeDate(_, _, _)
NormalizeDate(year, month, day) ==
    IF month > 12 THEN NormalizeDate(year + 1, month - 12, day)
    ELSE IF month < 1 THEN NormalizeDate(year - 1, month + 12, day)
    ELSE IF day > DaysInMonth(year, month)
         THEN NormalizeDate(year, month + 1, day - DaysInMonth(year, month))
    ELSE IF day < 1
         THEN LET py == IF month = 1 THEN year - 1 ELSE year
                  pm == IF month = 1 THEN 12 ELSE month - 1
              IN  NormalizeDate(py, pm, day + DaysInMonth(py, pm))
    ELSE [year |-> year, month |-> month, day |-> day]

\* new Date(parseInt(year), parseInt(month) - 1, parseInt(day)): <<date>>, or
\* <<>> for an Invalid Date
NewDate(year, month, day) ==
    IF year = <<>> \/ month = <<>> \/ day = <<>> THEN <<>>
    ELSE <<NormalizeDate(year[1], month[1], day[1])>>

\* getMonthYear(dateString), format 'numeric': "MM-YYYY"
getMonthYear(dateString) ==
    IF dateString = "" THEN ""
    ELSE LET parts == split(dateString)
         IN  IF Len(parts) = 2 /\ Len(parts[1]) = 2 /\ Len(parts[2]) = 4 THEN dateString
             ELSE LET date ==
                          IF Len(parts) = 3 /\ Len(parts[1]) = 4
                          THEN NewDate(parseInt(parts[1]), parseInt(parts[2]), parseInt(parts[3]))
                          ELSE IF Len(parts) = 3 /\ Len(parts[1]) = 2
                          THEN NewDate(parseInt(parts[3]), parseInt(parts[2]), parseInt(parts[1]))
                          ELSE <<>>
                  IN  IF date = <<>> THEN dateString
                      ELSE pad2(date[1].month) \o "-" \o ToString(date[1].year)

\* the comparator of getUniqueMonths is negative: a comes before b
NewerMonth(a, b) ==
    LET monthA == parseInt(split(a)[1])[1]
        yearA == parseInt(split(a)[2])[1]
        monthB == parseInt(split(b)[1])[1]
        yearB == parseInt(split(b)[2])[1]
    IN  IF yearA # yearB THEN yearB - yearA < 0 ELSE monthB - monthA < 0

\* Array.from(months).sort(...) of a set of "MM-YYYY" keys
RECURSIVE SortNewestFirst(_)
SortNewestFirst(months) ==
    IF months = {} THEN <<>>
    ELSE LET first == CHOOSE a \in months : \A b \in months \ {a} : NewerMonth(a, b)
         IN  <<first>> \o SortNewestFirst(months \ {first})

getUniqueMonths(list) ==
    SortNewestFirst({ getMonthYear(list[k].date) : k \in 1..Len(list) } \ {""})

\* mutant: a snapshot holds the records up to its month, not of its month
filterExpensesByMonth_UpTo(list, monthYear) ==
    SelectSeq(list, LAMBDA e : getMonthYear(e.date) = monthYear
                               \/ NewerMonth(monthYear, getMonthYear(e.date)))

filterExpensesByMonth(list, monthYear) ==
    SelectSeq(list, LAMBDA e : getMonthYear(e.date) = monthYear)

\* formatDateToDDMMYYYY of a non-empty string: "DD-MM-YYYY" stays, "YYYY-MM-DD"
\* is turned round, anything else is left as it is
formatDateToDDMMYYYY(dateString) ==
    LET parts == split(dateString)
    IN  IF includes(dateString, "-") /\ Len(parts[1]) = 2 THEN dateString
        ELSE IF Len(parts) = 3 /\ Len(parts[1]) = 4
                /\ NewDate(parseInt(parts[1]), parseInt(parts[2]), parseInt(parts[3])) # <<>>
             THEN LET date == NewDate(parseInt(parts[1]), parseInt(parts[2]),
                                      parseInt(parts[3]))[1]
                  IN  pad2(date.day) \o "-" \o pad2(date.month) \o "-" \o ToString(date.year)
        ELSE dateString

\* the day on which everything happens, as new Date() gives it
TodayISO == "2024-04-02"

\* the date a POST stores: today's for a missing date
StoredDate(dateString) ==
    IF dateString = "" THEN formatDateToDDMMYYYY(TodayISO)
    ELSE formatDateToDDMMYYYY(dateString)

\* the record, dated
On(record, date) == [record EXCEPT !.date = date]

\* parseDDMMYYYY: <<>> for null, else <<d>> with d what new Date(year, month - 1,
\* day) gives
parseDDMMYYYY(dateString) ==
    LET parts == split(dateString)
    IN  IF Len(parts) = 3
        THEN <<NewDate(parseInt(parts[3]), parseInt(parts[2]), parseInt(parts[1]))>>
        ELSE <<>>

\* a < b of two Date objects at midnight; false when one is an Invalid Date
DateBefore(a, b) ==
    /\ a # <<>> /\ b # <<>>
    /\ \/ a[1].year < b[1].year
       \/ a[1].year = b[1].year /\ a[1].month < b[1].month
       \/ a[1].year = b[1].year /\ a[1].month = b[1].month /\ a[1].day < b[1].day

\* isDateInRange; the end of the range is the end of its day, so a date is
\* past it when it is a later day
isDateInRange(dateString, start, end) ==
    IF start = "" /\ end = "" THEN TRUE
    ELSE LET date == parseDDMMYYYY(dateString)
         IN  IF date = <<>> THEN FALSE
             ELSE IF start # "" /\ parseDDMMYYYY(start) # <<>>
                     /\ DateBefore(date[1], parseDDMMYYYY(start)[1]) THEN FALSE
             ELSE IF end # "" /\ parseDDMMYYYY(end) # <<>>
                     /\ DateBefore(parseDDMMYYYY(end)[1], date[1]) THEN FALSE
             ELSE TRUE

\* the records of a list within the date range: filteredExpenses and
\* filteredPurchases for the range given
FilterByRange(list, start, end) ==
    IF start = "" /\ end = "" THEN list
    ELSE SelectSeq(list, LAMBDA r :
             isDateInRange(IF r.date = "" THEN "" ELSE formatDateToDDMMYYYY(r.date),
                           start, end))

filteredExpenses == FilterByRange(expenses, startDate, endDate)

filteredPurchases == FilterByRange(sharedPurchases, startDate, endDate)

-----------------------------------------------------------------------------
(* The view of SettlementMatrix.tsx *)

settlements == calculateSettlements(filteredExpenses, filteredPurchases)

settlementInstructions ==
    LET s == settlements
    IN  getSettlementInstructions(s.purchaseSpending, s.directPayments,
                                  s.sharedPurchaseDebts, filteredExpenses, filteredPurchases)

-----------------------------------------------------------------------------
(* The month-wise breakdown of SettlementMatrix.tsx *)

\* monthlySettlements[month]
monthlySettlements(month, expenseList, purchaseList) ==
    calculateSettlements(filterExpensesByMonth(expenseList, month),
                         filterExpensesByMonth(purchaseList, month))

\* monthInstructions of the month
monthInstructions(month, expenseList, purchaseList) ==
    LET monthData == monthlySettlements(month, expenseList, purchaseList)
    IN  getSettlementInstructions(monthData.purchaseSpending, monthData.directPayments,
                                  monthData.sharedPurchaseDebts,
                                  filterExpensesByMonth(expenseList, month),
                                  filterExpensesByMonth(purchaseList, month))

\* the snapshots of the breakdown of the two lists, in the order they are
\* rendered: uniqueMonths.map(...), with uniqueMonths the months of the expenses
MonthWiseBreakdown(expenseList, purchaseList) ==
    LET uniqueMonths == getUniqueMonths(expenseList)
    IN  [k \in 1..Len(uniqueMonths) |->
            [monthKey |-> uniqueMonths[k],
             aggregates |-> monthlySettlements(uniqueMonths[k], expenseList, purchaseList),
             instructions |-> monthInstructions(uniqueMonths[k], expenseList, purchaseList)]]

monthlyBreakdown == MonthWiseBreakdown(expenses, sharedPurchases)

-----------------------------------------------------------------------------
(* The payment history of a roommate: calculateRoommateHistory of App.tsx, *)
(* computed from all the expenses and shared purchases.  A Map that is     *)
(* added to in a loop is the sum of what the loop adds.                    *)

\* getLikelyItemSplitKeys of the history: the keys of the purchases with a split
historyItemSplitKeys ==
    getLikelyItemSplitKeys(SelectSeq(sharedPurchases, LAMBDA p : Len(p.splitBetween) > 0))

isPersonalExpense(e) ==
    IF e.note = "" \/ ~includes(toLowerCase(e.note), "item:") THEN FALSE
    ELSE ~isExpenseDuplicate(e, historyItemSplitKeys)

\* expenses.some(...) of the purchase loop
hasMatchingExpense(purchase) ==
    \E k \in 1..Len(expenses) :
        LET e == expenses[k]
        IN  /\ e.name = purchase.payer
            /\ e.type # Settlement
            /\ includes(toLowerCase(e.note), "item:")
            /\ matchItem(e.note) # <<>>
            /\ toLowerCase(trim(matchItem(e.note)[1])) = toLowerCase(purchase.itemName)
            /\ e.amount - purchase.amount < Cent
            /\ purchase.amount - e.amount < Cent

\* generalSpendingMap.get(name) || 0 once both loops are done
generalSpendingMap(name) ==
    SumAmounts(SelectSeq(expenses, LAMBDA e :
        /\ e.type # Settlement
        /\ e.name = name
        /\ ~isExpenseDuplicate(e, historyItemSplitKeys)
        /\ ~isPersonalExpense(e)))
    + SumAmounts(SelectSeq(sharedPurchases, LAMBDA p :
        /\ Len(p.splitBetween) > 0
        /\ p.payer = name
        /\ ~hasMatchingExpense(p)))

\* paymentsMap.get(`${from}-${to}`) || 0
paymentsMap(from, to) ==
    SumAmounts(SelectSeq(expenses, LAMBDA e :
        /\ e.type = Settlement
        /\ SettlementRecipient(e) # ""
        /\ PairKey(e.name, SettlementRecipient(e)) = PairKey(from, to)))

\* sharedPurchaseDebts.get(`${buyer}-${payer}`) || 0 of the history: the
\* purchases without split whose buyer is not the payer
historyPurchaseDebts(buyer, payer) ==
    SumAmounts(SelectSeq(sharedPurchases, LAMBDA p :
        /\ Len(p.splitBetween) = 0
        /\ p.buyer # p.payer
        /\ PairKey(p.buyer, p.payer) = PairKey(buyer, payer)))

\* debt of the dueBreakdown loop: what roommateName owes other
dueDebt(roommateName, other) ==
    LET jSpent == generalSpendingMap(other)
        iSpent == generalSpendingMap(roommateName)
        baseDebt == (jSpent \div m) - (iSpent \div m)
        sharedDebt == historyPurchaseDebts(roommateName, other)
        iPaidJ == paymentsMap(roommateName, other)
        jPaidI == paymentsMap(other, roommateName)
    IN  baseDebt - iPaidJ + jPaidI + sharedDebt

\* debt of the owedBreakdown loop: what other owes roommateName
owedDebt(roommateName, other) ==
    LET jSpent == generalSpendingMap(roommateName)
        iSpent == generalSpendingMap(other)
        baseDebt == (jSpent \div m) - (iSpent \div m)
        sharedDebt == historyPurchaseDebts(other, roommateName)
        iPaidJ == paymentsMap(other, roommateName)
        jPaidI == paymentsMap(roommateName, other)
    IN  baseDebt - iPaidJ + jPaidI + sharedDebt

dueBreakdown(roommateName) ==
    LET listed == SelectSeq(roommates, LAMBDA other :
                      other.name # roommateName /\ dueDebt(roommateName, other.name) > Cent)
    IN  [k \in 1..Len(listed) |->
            [to |-> listed[k].name, amount |-> dueDebt(roommateName, listed[k].name)]]

owedBreakdown(roommateName) ==
    LET listed == SelectSeq(roommates, LAMBDA other :
                      other.name # roommateName /\ owedDebt(roommateName, other.name) > Cent)
    IN  [k \in 1..Len(listed) |->
            [from |-> listed[k].name, amount |-> owedDebt(roommateName, listed[k].name)]]

calculateRoommateHistory(roommateName) ==
    [dueBreakdown |-> dueBreakdown(roommateName),
     owedBreakdown |-> owedBreakdown(roommateName)]

-----------------------------------------------------------------------------
(* Bounds and inputs *)

\* the most records, expenses and shared purchases together, the ledger holds
MaxRecords == 3

Records == Len(expenses) + Len(sharedPurchases)

Expense(name, to, type, amount, note) ==
    [name |-> name, to |-> to, type |-> type, amount |-> amount, note |-> note,
     date |-> TodayISO]

Purchase(itemName, amount, buyer, payer, note, splitBetween, perPersonAmount) ==
    [itemName |-> itemName, amount |-> amount, buyer |-> buyer, payer |-> payer,
     note |-> note, splitBetween |-> splitBetween, perPersonAmount |-> perPersonAmount,
     date |-> TodayISO]

\* bodies of POST /api/expenses: general expenses, a settlement as
\* handleRecordPayment sends it, and three the server refuses
ExpenseRequests ==
    { Expense("A", "", "Grocery", Rs(100, 0), ""),
      Expense("B", "", "Grocery", Rs(0, 2), ""),
      Expense("A", "", "Other", Rs(120, 0) + (Cent \div 4), "item: RICE - 5kg bag"),
      Expense("B", "A", Settlement, Rs(50, 0), "Settlement payment to A"),
      Expense("A", "A", Settlement, Rs(10, 0), "Settlement payment to A"),
      Expense("B", "", Settlement, Rs(10, 0), "Settlement payment to A"),
      Expense("A", "", "Grocery", 0, "") }

\* what is typed into the Item Split form
FormInputs ==
    { [itemName |-> "Rice", amount |-> Rs(120, 0), buyer |-> "A", payer |-> "A",
       note |-> "", splitBetween |-> <<>>, date |-> TodayISO],
      [itemName |-> "Soap", amount |-> Rs(60, 0), buyer |-> "B", payer |-> "A",
       note |-> "", splitBetween |-> <<"A", "B">>, date |-> TodayISO],
      [itemName |-> "Milk", amount |-> Rs(40, 0), buyer |-> "C", payer |-> "B",
       note |-> "", splitBetween |-> <<>>, date |-> TodayISO],
      [itemName |-> "Tea ", amount |-> Rs(100, 0), buyer |-> "C", payer |-> "B",
       note |-> "", splitBetween |-> <<"A", "B", "C">>, date |-> TodayISO],
      [itemName |-> "Salt", amount |-> 0, buyer |-> "A", payer |-> "A",
       note |-> "", splitBetween |-> <<>>, date |-> TodayISO],
      [itemName |-> "  ", amount |-> Rs(5, 0), buyer |-> "A", payer |-> "A",
       note |-> "", splitBetween |-> <<>>, date |-> TodayISO] }

\* names typed into the add-roommate box
NameInputs == {"C", "  "}

\* the data file the server starts from: the roommates alone, or records written
\* by an earlier version (a settlement without `to`, a split without
\* perPersonAmount whose buyer is not in the split)
DataFiles ==
    { [roommates |-> <<[name |-> "A"], [name |-> "B"]>>,
       expenses |-> <<>>,
       sharedPurchases |-> <<>>,
       fixedCosts |-> [rent |-> 0, electricity |-> 0]],
      [roommates |-> <<[name |-> "A"], [name |-> "B"]>>,
       fixedCosts |-> [rent |-> 0, electricity |-> 0],
       expenses |-> <<On(Expense("B", "", Settlement, Rs(20, 0), "Settlement payment to A"),
                         "2024-02-10")>>,
       sharedPurchases |-> <<On(Purchase("Oil", Rs(90, 0), "C", "A", "", <<"A", "B">>, Undefined),
                                "2024-02-11")>>] }

-----------------------------------------------------------------------------
(* The ledger: App.tsx over the REST API of the server *)

\* GET /api/expenses: the expenses of the file with their dates as DD-MM-YYYY
GetExpenses(file) ==
    [k \in 1..Len(file.expenses) |->
        On(file.expenses[k],
           IF file.expenses[k].date = "" THEN ""
           ELSE formatDateToDDMMYYYY(file.expenses[k].date))]

\* an answer of the API: the endpoint, the position that stands for the :id of
\* a DELETE (0 otherwise) and the HTTP status
Answer(endpoint, id, status) == [endpoint |-> endpoint, id |-> id, status |-> status]

\* no request has been answered yet
NoResponse == Answer("", 0, 0)

\* a step of the ledger alone
LedgerOnly == UNCHANGED <<fixedCosts, response, startDate, endDate, paidVars>>

\* a request to the server
ServerOnly == UNCHANGED <<startDate, endDate, paidVars>>

\* no date range is set
RangeUnset == startDate = "" /\ endDate = ""

\* the paid status is not followed
PaidUnset ==
    /\ paidRoommateIds = <<>>
    /\ dataFile = [roommates |-> <<>>, paidRoommateIds |-> <<>>]
    /\ calls = <<>>

\* loadData: the state after mount is the content of the data file
Init ==
    \E file \in DataFiles :
        /\ roommates = file.roommates
        /\ expenses = GetExpenses(file)
        /\ sharedPurchases = file.sharedPurchases
        /\ fixedCosts = file.fixedCosts
        /\ response = NoResponse
        /\ RangeUnset
        /\ PaidUnset

\* POST /api/expenses answers 201
PostExpenseAccepted(expense) ==
    /\ expense.name # "" /\ expense.amount # 0
    /\ ~(expense.type = Settlement /\ expense.to = "")
    /\ ~(expense.type = Settlement /\ expense.name = expense.to)

\* addExpense: the new expense goes to the front; a refusal changes nothing
addExpense(expense) ==
    /\ Records < MaxRecords
    /\ expenses' = IF PostExpenseAccepted(expense)
                   THEN <<On(expense, StoredDate(expense.date))>> \o expenses ELSE expenses
    /\ UNCHANGED <<roommates, sharedPurchases>>

\* list.filter(x => x.id !== id), for the id of the record at position i
RemoveAt(list, i) == SubSeq(list, 1, i - 1) \o SubSeq(list, i + 1, Len(list))

deleteExpense(i) ==
    /\ i \in 1..Len(expenses)
    /\ expenses' = RemoveAt(expenses, i)
    /\ UNCHANGED <<roommates, sharedPurchases>>

\* POST /api/shared-purchases answers 201
PostPurchaseAccepted(purchase) ==
    /\ trim(purchase.itemName) # ""
    /\ purchase.amount # 0
    /\ trim(purchase.buyer) # ""
    /\ trim(purchase.payer) # ""

\* parseFloat((amountNum / splitBetween.length).toFixed(2))
RoundToCent(amount) == ((amount + (Cent \div 2)) \div Cent) * Cent

\* the purchase handleSubmit builds from the form
FormPurchase(f) ==
    On(Purchase(trim(f.itemName), f.amount, f.buyer, f.payer, trim(f.note), f.splitBetween,
                IF Len(f.splitBetween) > 0
                THEN <<RoundToCent(f.amount \div Len(f.splitBetween))>>
                ELSE Undefined),
       formatDateToDDMMYYYY(f.date))

\* the expense handleSubmit adds when buyer and payer are the same and no split is chosen
FormExpense(f) ==
    On(Expense(f.buyer, "", "Other", f.amount,
               "Item: " \o trim(f.itemName)
                   \o (IF trim(f.note) # "" THEN " - " \o trim(f.note) ELSE "")),
       formatDateToDDMMYYYY(f.date))

FormValid(f) ==
    /\ trim(f.itemName) # "" /\ f.buyer # "" /\ f.payer # ""
    /\ f.amount > 0

\* mutant: the shadow expense is added whenever buyer and payer are the same
FormAddsExpense_IgnoresSplit(f) == f.buyer = f.payer

FormAddsExpense(f) == f.buyer = f.payer /\ Len(f.splitBetween) = 0

\* handleSubmit of the Item Split form, with the addSharedPurchase and addExpense it calls
handleSubmit(f) ==
    /\ Records + (IF FormAddsExpense(f) THEN 2 ELSE 1) <= MaxRecords
    /\ IF FormValid(f)
       THEN /\ sharedPurchases' =
                 IF PostPurchaseAccepted(FormPurchase(f))
                 THEN <<On(FormPurchase(f), StoredDate(FormPurchase(f).date))>>
                          \o sharedPurchases
                 ELSE sharedPurchases
            /\ expenses' =
                 IF FormAddsExpense(f) /\ PostExpenseAccepted(FormExpense(f))
                 THEN <<On(FormExpense(f), StoredDate(FormExpense(f).date))>> \o expenses
                 ELSE expenses
       ELSE UNCHANGED <<expenses, sharedPurchases>>
    /\ UNCHANGED roommates

\* addSharedPurchase: the new purchase goes to the front; a refusal changes nothing
addSharedPurchase(purchase) ==
    /\ Records < MaxRecords
    /\ sharedPurchases' = IF PostPurchaseAccepted(purchase)
                          THEN <<On(purchase, StoredDate(purchase.date))>> \o sharedPurchases
                          ELSE sharedPurchases
    /\ UNCHANGED <<roommates, expenses>>

deleteSharedPurchase(i) ==
    /\ i \in 1..Len(sharedPurchases)
    /\ sharedPurchases' = RemoveAt(sharedPurchases, i)
    /\ UNCHANGED <<roommates, expenses>>

\* POST /api/roommates answers 201
PostRoommateAccepted(name) ==
    /\ trim(name) # ""
    /\ ~\E k \in 1..Len(roommates) : toLowerCase(roommates[k].name) = toLowerCase(name)

addRoommate(name) ==
    /\ roommates' = IF PostRoommateAccepted(name)
                    THEN Append(roommates, [name |-> trim(name)]) ELSE roommates
    /\ UNCHANGED <<expenses, sharedPurchases>>

\* a removal that would also take the roommate's expenses off the record
removeRoommate_Cascade(i) ==
    /\ i \in 1..Len(roommates)
    /\ roommates' = RemoveAt(roommates, i)
    /\ expenses' = SelectSeq(expenses, LAMBDA e : e.name # roommates[i].name)
    /\ UNCHANGED sharedPurchases

removeRoommate(i) ==
    /\ i \in 1..Len(roommates)
    /\ roommates' = RemoveAt(roommates, i)
    /\ UNCHANGED <<expenses, sharedPurchases>>

\* what the amount box of PAY NOW holds when the payment is sent, read by
\* parseFloat: the prefilled inst.amount.toFixed(2), nothing (NaN), 0 or a
\* negative number
PayAmountInputs(defaultAmount) ==
    { <<RoundToCent(defaultAmount)>>, <<>>, <<0>>, <<-Rs(5, 0)>> }

\* parseFloat(payAmount) || defaultAmount
AmountToSubmit(payAmount, defaultAmount) ==
    IF payAmount # <<>> /\ payAmount[1] # 0 THEN payAmount[1] ELSE defaultAmount

\* mutant: the payment is recorded from the creditor to the debtor
handleRecordPayment_Reversed(k, payAmount) ==
    /\ k \in 1..Len(settlementInstructions)
    /\ LET inst == settlementInstructions[k]
           amountToSubmit == AmountToSubmit(payAmount, inst.amount)
       IN  IF amountToSubmit <= 0 THEN UNCHANGED <<roommates, expenses, sharedPurchases>>
           ELSE addExpense(Expense(inst.to, inst.from, Settlement, amountToSubmit,
                                   "Settlement payment to " \o inst.from))

\* handleRecordPayment for the k-th instruction shown, with the onAddExpense it calls
handleRecordPayment(k, payAmount) ==
    /\ k \in 1..Len(settlementInstructions)
    /\ LET inst == settlementInstructions[k]
           amountToSubmit == AmountToSubmit(payAmount, inst.amount)
       IN  IF amountToSubmit <= 0 THEN UNCHANGED <<roommates, expenses, sharedPurchases>>
           ELSE addExpense(Expense(inst.from, inst.to, Settlement, amountToSubmit,
                                   "Settlement payment to " \o inst.to))

Next ==
    \/ \E expense \in ExpenseRequests : addExpense(expense) /\ LedgerOnly
    \/ \E i \in 1..Len(expenses) : deleteExpense(i) /\ LedgerOnly
    \/ \E f \in FormInputs : handleSubmit(f) /\ LedgerOnly
    \/ \E i \in 1..Len(sharedPurchases) : deleteSharedPurchase(i) /\ LedgerOnly
    \/ \E name \in NameInputs : addRoommate(name) /\ LedgerOnly
    \/ \E i \in 1..Len(roommates) : removeRoommate(i) /\ LedgerOnly

Spec == Init /\ [][Next]_vars

\* The ledger of roommates who also settle up with PAY NOW.  A payment takes
\* its amount from the debts of the moment, so with records coming and going
\* the amounts on record have no bound; here records are only added.
NextPay ==
    \/ \E expense \in ExpenseRequests : addExpense(expense) /\ LedgerOnly
    \/ \E k \in 1..Len(settlementInstructions) :
          \E payAmount \in PayAmountInputs(settlementInstructions[k].amount) :
              handleRecordPayment(k, payAmount) /\ LedgerOnly
    \/ \E f \in FormInputs : handleSubmit(f) /\ LedgerOnly
    \/ \E name \in NameInputs : addRoommate(name) /\ LedgerOnly
    \/ \E i \in 1..Len(roommates) : removeRoommate(i) /\ LedgerOnly

SpecPay == Init /\ [][NextPay]_vars

-----------------------------------------------------------------------------
(* The REST API of the server, request by request *)

\* bodies of POST /api/expenses, as any client of the API may send them
StoreExpenseRequests ==
    { Expense("A", "", "Grocery", Rs(100, 0), ""),
      Expense("A", "", "Grocery", -Rs(5, 0), ""),
      Expense("A", "", "Grocery", 0, ""),
      Expense("B", "A", Settlement, Rs(50, 0), "Settlement payment to A"),
      Expense("A", "A", Settlement, Rs(10, 0), "Settlement payment to A"),
      Expense("B", "", Settlement, Rs(10, 0), "Settlement payment to A") }

\* bodies of POST /api/shared-purchases
StorePurchaseRequests ==
    { Purchase("Soap", Rs(60, 0), "B", "A", "", <<"A", "B">>, <<Rs(30, 0)>>),
      Purchase("Soap", -Rs(60, 0), "B", "A", "", <<>>, Undefined),
      Purchase("Soap", 0, "B", "A", "", <<>>, Undefined) }

\* the roommates the data file holds at most
MaxRoommates == 3

\* names in the bodies of POST /api/roommates: blanks, the name of A as it
\* is stored and with a space before it
StoreNameRequests == {"  ", "A", " A"}

\* bodies of PUT /api/fixed-costs
FixedCostsRequests == { [rent |-> Rs(9000, 0), electricity |-> 0] }

\* bodies of POST /api/import: an export of this application (it carries no
\* shared purchases) edited by hand, and a file without expenses
ImportBodies ==
    { [fields |-> {"roommates", "expenses", "fixedCosts"},
       roommates |-> <<[name |-> "A"], [name |-> "B"]>>,
       expenses |-> <<On(Expense("A", "A", Settlement, Rs(10, 0), "Settlement payment to A"),
                         "01-03-2024"),
                      On(Expense("B", "", Settlement, Rs(10, 0), ""), "02-03-2024")>>,
       sharedPurchases |-> <<>>,
       fixedCosts |-> [rent |-> Rs(9000, 0), electricity |-> 0]],
      [fields |-> {"roommates", "fixedCosts"},
       roommates |-> <<[name |-> "A"]>>,
       expenses |-> <<>>,
       sharedPurchases |-> <<>>,
       fixedCosts |-> [rent |-> 0, electricity |-> 0]] }

\* the server starts from a data file that holds the roommates and no record
InitStore ==
    /\ roommates = <<[name |-> "A"], [name |-> "B"]>>
    /\ expenses = <<>>
    /\ sharedPurchases = <<>>
    /\ fixedCosts = [rent |-> 0, electricity |-> 0]
    /\ response = NoResponse
    /\ RangeUnset
    /\ PaidUnset

PostExpenses(expense) ==
    /\ addExpense(expense)
    /\ response' = Answer("POST /api/expenses", 0,
                          IF PostExpenseAccepted(expense) THEN 201 ELSE 400)
    /\ UNCHANGED fixedCosts

\* DELETE /api/expenses/:id; position Len(expenses) + 1 stands for an id that
\* no expense has
DeleteExpenses(i) ==
    /\ IF i \in 1..Len(expenses) THEN deleteExpense(i)
       ELSE UNCHANGED <<roommates, expenses, sharedPurchases>>
    /\ response' = Answer("DELETE /api/expenses/:id", i,
                          IF i \in 1..Len(expenses) THEN 200 ELSE 404)
    /\ UNCHANGED fixedCosts

PostSharedPurchases(purchase) ==
    /\ addSharedPurchase(purchase)
    /\ response' = Answer("POST /api/shared-purchases", 0,
                          IF PostPurchaseAccepted(purchase) THEN 201 ELSE 400)
    /\ UNCHANGED fixedCosts

DeleteSharedPurchases(i) ==
    /\ IF i \in 1..Len(sharedPurchases) THEN deleteSharedPurchase(i)
       ELSE UNCHANGED <<roommates, expenses, sharedPurchases>>
    /\ response' = Answer("DELETE /api/shared-purchases/:id", i,
                          IF i \in 1..Len(sharedPurchases) THEN 200 ELSE 404)
    /\ UNCHANGED fixedCosts

PostRoommates(name) ==
    /\ Len(roommates) < MaxRoommates
    /\ addRoommate(name)
    /\ response' = Answer("POST /api/roommates", 0,
                          IF PostRoommateAccepted(name) THEN 201 ELSE 400)
    /\ UNCHANGED fixedCosts

\* DELETE /api/roommates/:id
DeleteRoommates(i) ==
    /\ IF i \in 1..Len(roommates) THEN removeRoommate(i)
       ELSE UNCHANGED <<roommates, expenses, sharedPurchases>>
    /\ response' = Answer("DELETE /api/roommates/:id", i,
                          IF i \in 1..Len(roommates) THEN 200 ELSE 404)
    /\ UNCHANGED fixedCosts

\* PUT /api/fixed-costs, with two numbers in the body
PutFixedCosts(body) ==
    /\ fixedCosts' = [rent |-> body.rent, electricity |-> body.electricity]
    /\ response' = Answer("PUT /api/fixed-costs", 0, 200)
    /\ UNCHANGED <<roommates, expenses, sharedPurchases>>

\* POST /api/import answers 200: the three parts it looks for are there
ImportAccepted(body) == {"roommates", "expenses", "fixedCosts"} \subseteq body.fields

\* POST /api/import: the body takes the place of the data file
PostImport(body) ==
    /\ IF ImportAccepted(body)
       THEN /\ roommates' = body.roommates
            /\ expenses' = body.expenses
            /\ sharedPurchases' = IF "sharedPurchases" \in body.fields
                                  THEN body.sharedPurchases ELSE <<>>
            /\ fixedCosts' = body.fixedCosts
       ELSE UNCHANGED <<roommates, expenses, sharedPurchases, fixedCosts>>
    /\ response' = Answer("POST /api/import", 0, IF ImportAccepted(body) THEN 200 ELSE 400)

NextStore ==
    \/ \E expense \in StoreExpenseRequests : PostExpenses(expense) /\ ServerOnly
    \/ \E i \in 1..(Len(expenses) + 1) : DeleteExpenses(i) /\ ServerOnly
    \/ \E purchase \in StorePurchaseRequests : PostSharedPurchases(purchase) /\ ServerOnly
    \/ \E i \in 1..(Len(sharedPurchases) + 1) : DeleteSharedPurchases(i) /\ ServerOnly
    \/ \E name \in StoreNameRequests : PostRoommates(name) /\ ServerOnly
    \/ \E i \in 1..(Len(roommates) + 1) : DeleteRoommates(i) /\ ServerOnly
    \/ \E body \in FixedCostsRequests : PutFixedCosts(body) /\ ServerOnly
    \/ \E body \in ImportBodies : PostImport(body) /\ ServerOnly

SpecStore == InitStore /\ [][NextStore]_vars

-----------------------------------------------------------------------------
(* The Item Split form of ItemSplitCalculator.tsx, used by three roommates *)

\* what is typed and chosen in the form: item names with capitals, a space or a
\* hyphen, notes with hyphens, splits between two and three, an amount of 0
ItemSplitForms ==
    { [itemName |-> "Rice", amount |-> Rs(120, 0), buyer |-> "A", payer |-> "A",
       note |-> "", splitBetween |-> <<>>, date |-> TodayISO],
      [itemName |-> "Co-op", amount |-> Rs(60, 0), buyer |-> "A", payer |-> "A",
       note |-> "weekly", splitBetween |-> <<>>, date |-> TodayISO],
      [itemName |-> " Olive Oil", amount |-> Rs(90, 0), buyer |-> "B", payer |-> "B",
       note |-> "2 L - tin ", splitBetween |-> <<>>, date |-> TodayISO],
      [itemName |-> "Soap", amount |-> Rs(60, 0), buyer |-> "B", payer |-> "A",
       note |-> "", splitBetween |-> <<"A", "B">>, date |-> TodayISO],
      [itemName |-> "Tea", amount |-> Rs(100, 0), buyer |-> "B", payer |-> "B",
       note |-> "", splitBetween |-> <<"A", "B", "C">>, date |-> TodayISO],
      [itemName |-> "Milk", amount |-> Rs(40, 0), buyer |-> "C", payer |-> "B",
       note |-> "", splitBetween |-> <<>>, date |-> TodayISO],
      [itemName |-> "Salt", amount |-> 0, buyer |-> "A", payer |-> "A",
       note |-> "", splitBetween |-> <<>>, date |-> TodayISO] }

InitForm ==
    /\ roommates = <<[name |-> "A"], [name |-> "B"], [name |-> "C"]>>
    /\ expenses = <<>>
    /\ sharedPurchases = <<>>
    /\ fixedCosts = [rent |-> 0, electricity |-> 0]
    /\ response = NoResponse
    /\ RangeUnset
    /\ PaidUnset

NextForm ==
    \/ \E f \in ItemSplitForms : handleSubmit(f) /\ LedgerOnly
    \/ \E i \in 1..Len(expenses) : deleteExpense(i) /\ LedgerOnly
    \/ \E i \in 1..Len(sharedPurchases) : deleteSharedPurchase(i) /\ LedgerOnly

SpecForm == InitForm /\ [][NextForm]_vars

-----------------------------------------------------------------------------
\* The ledger of roommates who enter records of several months: expenses of
\* March 2024, December 2023 and today (April 2024), through the API
MonthlyExpenseRequests ==
    { On(Expense("A", "", "Grocery", Rs(100, 0), ""), "2024-03-15"),
      On(Expense("B", "", "Rent", Rs(60, 0), ""), "20-12-2023"),
      On(Expense("B", "A", Settlement, Rs(50, 0), "Settlement payment to A"), "") }

\* and purchases of March 2024, January 2024 and December 2023, through the form
MonthlyFormInputs ==
    { [itemName |-> "Soap", amount |-> Rs(60, 0), buyer |-> "B", payer |-> "A",
       note |-> "", splitBetween |-> <<"A", "B">>, date |-> "2024-03-20"],
      [itemName |-> "Milk", amount |-> Rs(40, 0), buyer |-> "B", payer |-> "A",
       note |-> "", splitBetween |-> <<>>, date |-> "2024-01-05"],
      [itemName |-> "Rice", amount |-> Rs(120, 0), buyer |-> "A", payer |-> "A",
       note |-> "", splitBetween |-> <<>>, date |-> "2023-12-24"] }

NextMonthly ==
    \/ \E expense \in MonthlyExpenseRequests : addExpense(expense) /\ LedgerOnly
    \/ \E i \in 1..Len(expenses) : deleteExpense(i) /\ LedgerOnly
    \/ \E f \in MonthlyFormInputs : handleSubmit(f) /\ LedgerOnly
    \/ \E i \in 1..Len(sharedPurchases) : deleteSharedPurchase(i) /\ LedgerOnly
    \/ \E name \in NameInputs : addRoommate(name) /\ LedgerOnly

SpecMonthly == Init /\ [][NextMonthly]_vars

-----------------------------------------------------------------------------
(* The matrix viewed through a date range, with PAY NOW *)

\* values of the two date inputs: cleared, or a day of March 2024
StartDateInputs == {"", "2024-03-01"}
EndDateInputs == {"", "2024-03-31"}

handleStartDateChange(value) ==
    /\ startDate' = IF value # "" THEN formatDateToDDMMYYYY(value) ELSE ""
    /\ UNCHANGED <<roommates, expenses, sharedPurchases, fixedCosts, response, endDate>>
    /\ UNCHANGED paidVars

handleEndDateChange(value) ==
    /\ endDate' = IF value # "" THEN formatDateToDDMMYYYY(value) ELSE ""
    /\ UNCHANGED <<roommates, expenses, sharedPurchases, fixedCosts, response, startDate>>
    /\ UNCHANGED paidVars

clearDateFilters ==
    /\ startDate' = ""
    /\ endDate' = ""
    /\ UNCHANGED <<roommates, expenses, sharedPurchases, fixedCosts, response>>
    /\ UNCHANGED paidVars

\* records of several months are entered, the range is set and cleared, and
\* the instructions shown are paid
NextView ==
    \/ \E expense \in MonthlyExpenseRequests : addExpense(expense) /\ LedgerOnly
    \/ \E f \in MonthlyFormInputs : handleSubmit(f) /\ LedgerOnly
    \/ \E value \in StartDateInputs : handleStartDateChange(value)
    \/ \E value \in EndDateInputs : handleEndDateChange(value)
    \/ clearDateFilters
    \/ \E k \in 1..Len(settlementInstructions) :
          \E payAmount \in PayAmountInputs(settlementInstructions[k].amount) :
              handleRecordPayment(k, payAmount) /\ LedgerOnly

SpecView == Init /\ [][NextView]_vars

-----------------------------------------------------------------------------
(* The paid status, with the calls of the API in flight *)

\* the calls that can be in flight at once
MaxCalls == 2

\* Array.prototype.includes
IdIn(list, id) == \E i \in 1..Len(list) : list[i] = id

\* list.filter(x => x !== id)
WithoutId(list, id) == SelectSeq(list, LAMBDA x : x # id)

\* the ids of a list of roommates
IdsOf(list) == { list[i].name : i \in 1..Len(list) }

\* a call of the API: the handler that awaits it, the id it is about, the
\* list it carries, whether the server has answered it, and the answer
Call(api, id, updated) ==
    [api |-> api, id |-> id, updated |-> updated, at |-> "request", ok |-> TRUE]

\* what the steps of the paid status leave alone
PaidOnly == UNCHANGED <<expenses, sharedPurchases, fixedCosts, response, startDate, endDate>>

\* loadData: the client shows the content of the data file; nobody has paid
InitPaid ==
    /\ roommates = <<[name |-> "A"], [name |-> "B"]>>
    /\ expenses = <<>>
    /\ sharedPurchases = <<>>
    /\ fixedCosts = [rent |-> 0, electricity |-> 0]
    /\ response = NoResponse
    /\ RangeUnset
    /\ paidRoommateIds = <<>>
    /\ dataFile = [roommates |-> roommates, paidRoommateIds |-> <<>>]
    /\ calls = <<>>

\* onTogglePaid up to its await: updated is computed from the paidRoommateIds
\* of the render the click was made in, and sent
onTogglePaidSends(id) ==
    /\ Len(calls) < MaxCalls
    /\ id \in IdsOf(roommates)
    /\ LET updated == IF IdIn(paidRoommateIds, id)
                      THEN WithoutId(paidRoommateIds, id)
                      ELSE Append(paidRoommateIds, id)
       IN  calls' = Append(calls, Call("paidRoommatesAPI.update", id, updated))
    /\ UNCHANGED <<roommates, paidRoommateIds, dataFile>>
    /\ PaidOnly

\* CLEAR STATUS up to its await
clearStatusSends ==
    /\ Len(calls) < MaxCalls
    /\ calls' = Append(calls, Call("paidRoommatesAPI.update", "", <<>>))
    /\ UNCHANGED <<roommates, paidRoommateIds, dataFile>>
    /\ PaidOnly

\* PUT /api/paid-roommates: the list of the body replaces the list of the file
PutPaidRoommates(k) ==
    /\ calls[k].api = "paidRoommatesAPI.update"
    /\ calls[k].at = "request"
    /\ dataFile' = [dataFile EXCEPT !.paidRoommateIds = calls[k].updated]
    /\ calls' = [calls EXCEPT ![k].at = "response"]
    /\ UNCHANGED <<roommates, paidRoommateIds>>
    /\ PaidOnly

\* onTogglePaid and CLEAR STATUS after their await: setPaidRoommateIds(updated)
onTogglePaidResumes(k) ==
    /\ calls[k].api = "paidRoommatesAPI.update"
    /\ calls[k].at = "response"
    /\ paidRoommateIds' = calls[k].updated
    /\ calls' = RemoveAt(calls, k)
    /\ UNCHANGED <<roommates, dataFile>>
    /\ PaidOnly

\* removeRoommate up to its await
removeRoommateSends(id) ==
    /\ Len(calls) < MaxCalls
    /\ id \in IdsOf(roommates)
    /\ calls' = Append(calls, Call("roommatesAPI.delete", id, <<>>))
    /\ UNCHANGED <<roommates, paidRoommateIds, dataFile>>
    /\ PaidOnly

\* DELETE /api/roommates/:id: the roommate and its paid status leave the file;
\* 404 when no roommate has the id
DeleteRoommatesOfFile(k) ==
    /\ calls[k].api = "roommatesAPI.delete"
    /\ calls[k].at = "request"
    /\ LET id == calls[k].id
           found == id \in IdsOf(dataFile.roommates)
       IN  /\ dataFile' =
                 [roommates |-> SelectSeq(dataFile.roommates, LAMBDA r : r.name # id),
                  paidRoommateIds |-> WithoutId(dataFile.paidRoommateIds, id)]
           /\ calls' = [calls EXCEPT ![k].at = "response", ![k].ok = found]
    /\ UNCHANGED <<roommates, paidRoommateIds>>
    /\ PaidOnly

\* removeRoommate after its await: both lists are filtered, or the error is
\* shown and nothing changes
removeRoommateResumes(k) ==
    /\ calls[k].api = "roommatesAPI.delete"
    /\ calls[k].at = "response"
    /\ IF calls[k].ok
       THEN /\ roommates' = SelectSeq(roommates, LAMBDA r : r.name # calls[k].id)
            /\ paidRoommateIds' = WithoutId(paidRoommateIds, calls[k].id)
       ELSE UNCHANGED <<roommates, paidRoommateIds>>
    /\ calls' = RemoveAt(calls, k)
    /\ UNCHANGED dataFile
    /\ PaidOnly

\* the user clicks while earlier calls are in flight; the server answers the
\* requests, and the handlers resume, in any order
NextPaid ==
    \/ \E id \in IdsOf(roommates) : onTogglePaidSends(id)
    \/ clearStatusSends
    \/ \E k \in 1..Len(calls) : PutPaidRoommates(k)
    \/ \E k \in 1..Len(calls) : onTogglePaidResumes(k)
    \/ \E id \in IdsOf(roommates) : removeRoommateSends(id)
    \/ \E k \in 1..Len(calls) : DeleteRoommatesOfFile(k)
    \/ \E k \in 1..Len(calls) : removeRoommateResumes(k)

SpecPaid == InitPaid /\ [][NextPaid]_vars

-----------------------------------------------------------------------------
(* What the claims are stated over *)

\* every name the inputs and the data files use
Names == {"A", "B", "C"}

RoommateNames == { roommates[i].name : i \in 1..Len(roommates) }

\* the four maps, read from a result s of calculateSettlements
equalShare(s, p) == Get(s.purchaseSpending, p)
displaySpend(s, p) == Get(s.purchaseSpendingDisplay, p)
directPayments(s, a, b) == Get(s.directPayments, PairKey(a, b))
itemDebts(s, a, b) == Get(s.sharedPurchaseDebts, PairKey(a, b))

\* debt(i, j)
Debt(s, i, j) ==
    getDebt(i, j, s.purchaseSpending, s.directPayments, s.sharedPurchaseDebts)

\* the sum of the amounts of the records of a list that satisfy Test
SumWhere(list, Test(_)) == SumAmounts(SelectSeq(list, Test))

\* the ordered pairs of positions of distinct roommates whose debt exceeds 0.01
OwingPairs(s) ==
    { pr \in (1..m) \X (1..m) :
        /\ pr[1] # pr[2]
        /\ Debt(s, roommates[pr[1]].name, roommates[pr[2]].name) > Cent }

\* every division the engine makes is exact, so that the integer arithmetic of
\* the model is the arithmetic on the reals
DivisionsExact ==
    LET s == settlements
    IN  /\ \A p \in Names : m > 0 => equalShare(s, p) % m = 0
        /\ \A k \in 1..Len(sharedPurchases) :
              Len(sharedPurchases[k].splitBetween) > 0 =>
                  sharedPurchases[k].amount % Len(sharedPurchases[k].splitBetween) = 0

TypeOK ==
    /\ RoommateNames \subseteq Names
    /\ Len(roommates) = Cardinality(RoommateNames)
    /\ Records <= MaxRecords
    /\ \A k \in 1..Len(expenses) : expenses[k].name \in Names
    /\ \A k \in 1..Len(sharedPurchases) :
          {sharedPurchases[k].buyer, sharedPurchases[k].payer} \subseteq Names

-----------------------------------------------------------------------------
(* C1 *)

\* C1: antisymmetry.  In every reachable ledger, debt(i, j) = -debt(j, i) for
\* all names i and j (roommates and names that only occur in records alike).
C1_Antisymmetry ==
    LET s == settlements
    IN  m > 0 => \A i, j \in Names : Debt(s, i, j) = -Debt(s, j, i)

\* a ledger in which B owes A, with both a settlement and an item debt on record
C1_Witness ==
    LET s == settlements
    IN  /\ m > 1
        /\ Debt(s, "B", "A") > 0
        /\ DOMAIN s.directPayments # {}
        /\ DOMAIN s.sharedPurchaseDebts # {}

-----------------------------------------------------------------------------
(* C2 *)

\* C2: the debt formula.  For i # j, N * debt(i, j) is
\* equalShare[j] - equalShare[i]
\*   + N * (itemDebts[i->j] - itemDebts[j->i] - directPayments[i->j] + directPayments[j->i]),
\* and debt(i, i) = 0.
C2_DebtFormula ==
    LET s == settlements
    IN  m > 0 =>
            \A i, j \in Names :
                IF i = j THEN Debt(s, i, j) = 0
                ELSE m * Debt(s, i, j) =
                       equalShare(s, j) - equalShare(s, i)
                       + m * (itemDebts(s, i, j) - itemDebts(s, j, i)
                              - directPayments(s, i, j) + directPayments(s, j, i))

\* all three parts of the formula are at work for one pair
C2_Witness ==
    LET s == settlements
    IN  /\ m > 1
        /\ equalShare(s, "A") # equalShare(s, "B")
        /\ itemDebts(s, "B", "A") > 0
        /\ directPayments(s, "B", "A") > 0

-----------------------------------------------------------------------------
(* C3 *)

\* C3: getSettlementInstructions emits {from i, to j, amount debt(i, j)} exactly
\* for the ordered pairs of distinct roommates with debt(i, j) > 0.01, one
\* instruction for each, and never both i->j and j->i.
C3_Instructions ==
    LET s == settlements
        emitted == settlementInstructions
    IN  m > 0 =>
            /\ { <<emitted[k].from, emitted[k].to, emitted[k].amount>> :
                   k \in 1..Len(emitted) }
               = { <<roommates[pr[1]].name, roommates[pr[2]].name,
                     Debt(s, roommates[pr[1]].name, roommates[pr[2]].name)>> :
                   pr \in OwingPairs(s) }
            /\ Len(emitted) = Cardinality(OwingPairs(s))
            /\ \A k, l \in 1..Len(emitted) :
                  ~(emitted[k].from = emitted[l].to /\ emitted[k].to = emitted[l].from)

\* an instruction is emitted while another pair's debt of at most 0.01 is held back
C3_Witness ==
    LET s == settlements
    IN  /\ m > 1
        /\ Len(settlementInstructions) > 0
        /\ \E i, j \in RoommateNames : Debt(s, i, j) > 0 /\ Debt(s, i, j) <= Cent

-----------------------------------------------------------------------------
(* C4 *)

DetailsSum(instruction) == SumAmounts(instruction.expenseDetails)

Abs(x) == IF x < 0 THEN -x ELSE x

\* C4 as claimed: for every emitted instruction the amounts of its details add
\* up to the instruction's amount, within 0.01.
C4_DetailsReconcile ==
    LET emitted == settlementInstructions
    IN  m > 0 =>
            \A k \in 1..Len(emitted) :
                Abs(DetailsSum(emitted[k]) - emitted[k].amount) <= Cent

\* C4 as amended: for every emitted instruction i->j the details add up to what
\* i owes j for j's own spending, equalShare[j] / N + itemDebts[i->j]; the
\* instruction's amount is that sum less equalShare[i] / N, less
\* itemDebts[j->i], less directPayments[i->j], plus directPayments[j->i].
C4_DetailsAreGross ==
    LET s == settlements
        emitted == settlementInstructions
    IN  m > 0 =>
            \A k \in 1..Len(emitted) :
                LET ins == emitted[k]
                    sum == DetailsSum(ins)
                IN  /\ m * sum = equalShare(s, ins.to) + m * itemDebts(s, ins.from, ins.to)
                    /\ m * ins.amount =
                          m * sum - equalShare(s, ins.from)
                          - m * (itemDebts(s, ins.to, ins.from)
                                 + directPayments(s, ins.from, ins.to)
                                 - directPayments(s, ins.to, ins.from))

\* an instruction whose details hold a general line and a purchase line and
\* whose amount is smaller than their sum
C4_Witness ==
    LET emitted == settlementInstructions
    IN  /\ m > 1
        /\ \E k \in 1..Len(emitted) :
              LET ins == emitted[k]
              IN  /\ \E d \in 1..Len(ins.expenseDetails) :
                        ins.expenseDetails[d].type = "Specific/Split Items"
                  /\ \E d \in 1..Len(ins.expenseDetails) :
                        ins.expenseDetails[d].type # "Specific/Split Items"
                  /\ DetailsSum(ins) > ins.amount + Cent

-----------------------------------------------------------------------------
(* C5 *)

\* the claim's duplicate: the note yields "Item: X" and (payer, amount to two
\* decimals, lower-cased X) is the key of some shared purchase of the list;
\* X is taken without the spaces around it
IsShadowOf(e, purchase) ==
    /\ matchItem(e.note) # <<>>
    /\ purchase.payer = e.name
    /\ toFixed2(purchase.amount) = toFixed2(e.amount)
    /\ toLowerCase(purchase.itemName) = toLowerCase(trim(matchItem(e.note)[1]))

IsShadow(e) == \E k \in 1..Len(sharedPurchases) : IsShadowOf(e, sharedPurchases[k])

\* C5: deduplication.  An expense that is a duplicate of a shared purchase of
\* the list adds nothing to equalShare and nothing to displaySpend: both are
\* what they are with the expense taken out of the list, so its amount shows in
\* displaySpend through the shared purchase alone.
C5_Deduplication ==
    LET s == settlements
    IN  m > 0 =>
            \A k \in 1..Len(expenses) :
                IsShadow(expenses[k]) =>
                    LET without == calculateSettlements(RemoveAt(expenses, k), sharedPurchases)
                    IN  \A p \in Names :
                            /\ equalShare(s, p) = equalShare(without, p)
                            /\ displaySpend(s, p) = displaySpend(without, p)

\* a duplicate that is one only after rounding the amount, lower-casing the
\* item name and cutting the note at " -"
C5_Witness ==
    /\ m > 0
    /\ \E k \in 1..Len(expenses) :
          /\ IsShadow(expenses[k])
          /\ expenses[k].type # Settlement
          /\ expenses[k].note = "item: RICE - 5kg bag"
          /\ displaySpend(settlements, expenses[k].name) = Rs(120, 0)

-----------------------------------------------------------------------------
(* C6 *)

PaidBy(p, list) == SumWhere(list, LAMBDA r : r.payer = p)

\* C6 as claimed: displaySpend[p] is the sum of every non-settlement expense
\* paid by p, duplicate or not, plus every shared purchase paid by p.
C6_DisplayCountsDuplicates ==
    LET s == settlements
    IN  m > 0 =>
            \A p \in Names :
                displaySpend(s, p) =
                    SumWhere(expenses, LAMBDA e : e.name = p /\ e.type # Settlement)
                    + PaidBy(p, sharedPurchases)

\* C6 as amended: displaySpend[p] is the sum of every non-settlement expense
\* paid by p that is not a duplicate of a shared purchase, plus every shared
\* purchase paid by p.
C6_DisplaySkipsDuplicates ==
    LET s == settlements
    IN  m > 0 =>
            \A p \in Names :
                displaySpend(s, p) =
                    SumWhere(expenses,
                             LAMBDA e : e.name = p /\ e.type # Settlement /\ ~IsShadow(e))
                    + PaidBy(p, sharedPurchases)

\* A paid a shared purchase, its shadow expense and one more expense
C6_Witness ==
    /\ m > 0
    /\ PaidBy("A", sharedPurchases) > 0
    /\ \E k, l \in 1..Len(expenses) :
          /\ expenses[k].name = "A" /\ IsShadow(expenses[k])
          /\ expenses[l].name = "A" /\ ~IsShadow(expenses[l])
          /\ expenses[l].type # Settlement

-----------------------------------------------------------------------------
(* C7 *)

\* C7: equalShare[p] is the sum of exactly the non-settlement expenses paid by
\* p that are no duplicates; settlements and shared purchases add nothing.
C7_EqualShare ==
    LET s == settlements
    IN  m > 0 =>
            \A p \in Names :
                equalShare(s, p) =
                    SumWhere(expenses,
                             LAMBDA e : e.name = p /\ e.type # Settlement /\ ~IsShadow(e))

\* B paid a general expense, a settlement and a shared purchase
C7_Witness ==
    /\ m > 0
    /\ equalShare(settlements, "B") > 0
    /\ PaidBy("B", sharedPurchases) > 0
    /\ \E k \in 1..Len(expenses) : expenses[k].name = "B" /\ expenses[k].type = Settlement

-----------------------------------------------------------------------------
(* C8, C9 *)

\* the ledger's aggregates without the shared purchase at position k
WithoutPurchase(k) == calculateSettlements(expenses, RemoveAt(sharedPurchases, k))

Members(purchase) == { purchase.splitBetween[x] : x \in 1..Len(purchase.splitBetween) }

\* C8: a shared purchase with a non-empty split adds perPersonAmount, or
\* amount / |split| when that is absent, to itemDebts[p -> payer] for every
\* member p other than the payer, and nothing to any other entry.
C8_SplitDebts ==
    LET s == settlements
    IN  m > 0 =>
            \A k \in 1..Len(sharedPurchases) :
                LET purchase == sharedPurchases[k]
                    size == Len(purchase.splitBetween)
                    without == WithoutPurchase(k)
                    added(a, b) == itemDebts(s, a, b) - itemDebts(without, a, b)
                IN  size > 0 =>
                        \A a, b \in Names :
                            IF /\ b = purchase.payer
                               /\ a # purchase.payer
                               /\ a \in Members(purchase)
                            THEN IF purchase.perPersonAmount # Undefined
                                 THEN added(a, b) = purchase.perPersonAmount[1]
                                 ELSE size * added(a, b) = purchase.amount
                            ELSE added(a, b) = 0

\* a split without perPersonAmount whose payer is a member and whose buyer is not
C8_Witness ==
    /\ m > 0
    /\ \E k \in 1..Len(sharedPurchases) :
          LET purchase == sharedPurchases[k]
          IN  /\ Len(purchase.splitBetween) > 0
              /\ purchase.perPersonAmount = Undefined
              /\ purchase.payer \in Members(purchase)
              /\ purchase.buyer \notin Members(purchase)
              /\ \E a \in Names : itemDebts(settlements, a, purchase.payer) > 0

\* C9: a shared purchase without a split adds its full amount to
\* itemDebts[buyer -> payer] when buyer # payer, and nothing to any other
\* entry; with buyer = payer it adds nothing at all.
C9_LegacyDebt ==
    LET s == settlements
    IN  m > 0 =>
            \A k \in 1..Len(sharedPurchases) :
                LET purchase == sharedPurchases[k]
                    without == WithoutPurchase(k)
                IN  Len(purchase.splitBetween) = 0 =>
                        \A a, b \in Names :
                            itemDebts(s, a, b) - itemDebts(without, a, b) =
                                IF a = purchase.buyer /\ b = purchase.payer /\ a # b
                                THEN purchase.amount ELSE 0

\* a purchase without a split whose buyer owes its payer the full amount
C9_Witness ==
    /\ m > 0
    /\ \E k \in 1..Len(sharedPurchases) :
          /\ Len(sharedPurchases[k].splitBetween) = 0
          /\ sharedPurchases[k].buyer # sharedPurchases[k].payer
          /\ itemDebts(settlements, sharedPurchases[k].buyer, sharedPurchases[k].payer)
                = sharedPurchases[k].amount

-----------------------------------------------------------------------------
(* C10 *)

\* the recipient the claim names: the `to` field, else the name of a note
\* "Settlement payment to <name>", else none
ClaimedRecipient(e) ==
    IF e.to # "" THEN e.to
    ELSE IF \E n \in Names : e.note = "Settlement payment to " \o n
         THEN CHOOSE n \in Names : e.note = "Settlement payment to " \o n
         ELSE ""

\* C10: directPayments[(payer, recipient)] is the sum of the amounts of all
\* Settlement expenses from payer to recipient, and the map has no other entry.
C10_DirectPayments ==
    LET s == settlements
    IN  m > 0 =>
            /\ \A a, b \in Names :
                  directPayments(s, a, b) =
                      SumWhere(expenses,
                               LAMBDA e : /\ e.type = Settlement
                                          /\ e.name = a
                                          /\ ClaimedRecipient(e) = b)
            /\ DOMAIN s.directPayments \subseteq { PairKey(a, b) : a, b \in Names }

\* two settlements from B to A add up, one with `to`, one with the note alone
C10_Witness ==
    /\ m > 0
    /\ \E k, l \in 1..Len(expenses) :
          /\ expenses[k].type = Settlement /\ expenses[k].to = "A"
          /\ expenses[l].type = Settlement /\ expenses[l].to = ""
          /\ expenses[k].name = "B" /\ expenses[l].name = "B"
          /\ directPayments(settlements, "B", "A") = expenses[k].amount + expenses[l].amount

-----------------------------------------------------------------------------
(* C11 *)

\* the step puts one new expense at the front and changes nothing else
ExpenseAdded ==
    /\ Len(expenses') = Len(expenses) + 1
    /\ Tail(expenses') = expenses
    /\ roommates' = roommates
    /\ sharedPurchases' = sharedPurchases

\* C11: a step that records a Settlement of amount x from i to j lowers
\* debt(i, j) by exactly x, raises debt(j, i) by x and leaves the debt of every
\* other ordered pair as it was; a payment of the whole debt brings it to 0, and
\* a payment of the prefilled amount (the debt to two decimals) to within 0.01.
C11_SettlementEffect ==
    [][ (ExpenseAdded /\ m > 0 /\ Head(expenses').type = Settlement) =>
          LET before == settlements
              after == calculateSettlements(expenses', sharedPurchases)
              e == Head(expenses')
          IN  /\ \A a, b \in Names :
                    Debt(after, a, b) =
                        Debt(before, a, b)
                        + (IF a = e.name /\ b = e.to THEN -e.amount
                           ELSE IF a = e.to /\ b = e.name THEN e.amount ELSE 0)
              /\ e.amount = Debt(before, e.name, e.to) => Debt(after, e.name, e.to) = 0
              /\ e.amount = RoundToCent(Debt(before, e.name, e.to)) =>
                    Abs(Debt(after, e.name, e.to)) <= Cent ]_vars

\* a recorded payment of the whole debt stands first among three roommates, one
\* of whom still owes the recipient
C11_Witness ==
    /\ m = 3
    /\ Len(expenses) > 1
    /\ Head(expenses).type = Settlement
    /\ Head(expenses).to # ""
    /\ LET before == calculateSettlements(Tail(expenses), sharedPurchases)
           after == settlements
           e == Head(expenses)
       IN  /\ Debt(before, e.name, e.to) = e.amount
           /\ Debt(after, e.name, e.to) = 0
           /\ \E c \in Names \ {e.name, e.to} : Debt(after, c, e.to) > Cent

-----------------------------------------------------------------------------
(* C12 *)

\* C12: a step that adds a non-settlement expense of amount a paid by j, not a
\* duplicate of a shared purchase, raises debt(i, j) by a / N for every other
\* name i, lowers debt(j, i) by as much and leaves the debt between any two
\* names other than j as it was.  With roommates A and B and nothing else on
\* record, a Grocery expense of 100 by A makes debt(B, A) = 50, debt(A, B) = -50.
C12_ExpenseEffect ==
    [][ (/\ ExpenseAdded
         /\ m > 0
         /\ Head(expenses').type # Settlement
         /\ ~isExpenseDuplicate(Head(expenses'), getLikelyItemSplitKeys(sharedPurchases))) =>
          LET before == settlements
              after == calculateSettlements(expenses', sharedPurchases)
              e == Head(expenses')
          IN  /\ \A a, b \in Names :
                    Debt(after, a, b) =
                        Debt(before, a, b)
                        + (IF a # b /\ b = e.name THEN e.amount \div m
                           ELSE IF a # b /\ a = e.name THEN -(e.amount \div m) ELSE 0)
              /\ e.amount % m = 0
              /\ (/\ roommates = <<[name |-> "A"], [name |-> "B"]>>
                  /\ expenses = <<>> /\ sharedPurchases = <<>>
                  /\ e.name = "A" /\ e.amount = Rs(100, 0)) =>
                    Debt(after, "B", "A") = Rs(50, 0) /\ Debt(after, "A", "B") = -Rs(50, 0) ]_vars

\* among three roommates an expense stands first that raised, by a third of its
\* amount, a debt that was not 0 before
C12_Witness ==
    /\ m = 3
    /\ Len(expenses) > 0
    /\ Head(expenses).type # Settlement
    /\ ~isExpenseDuplicate(Head(expenses), getLikelyItemSplitKeys(sharedPurchases))
    /\ LET before == calculateSettlements(Tail(expenses), sharedPurchases)
           after == settlements
           e == Head(expenses)
       IN  \E i \in RoommateNames \ {e.name} :
              /\ e.name \in RoommateNames
              /\ Debt(before, i, e.name) # 0
              /\ Debt(after, i, e.name) = Debt(before, i, e.name) + e.amount \div 3

-----------------------------------------------------------------------------
(* C13 *)

\* the ledger holds only equal-split expenses paid by current roommates
OnlyEqualSplit ==
    /\ m > 0
    /\ sharedPurchases = <<>>
    /\ \A k \in 1..Len(expenses) :
          expenses[k].type # Settlement /\ expenses[k].name \in RoommateNames

\* what p has paid out once every instruction of the list is paid in full:
\* own expenses + payments made - payments received
NetOutlay(s, instructions, p) ==
    equalShare(s, p)
    + SumWhere(instructions, LAMBDA inst : inst.from = p)
    - SumWhere(instructions, LAMBDA inst : inst.to = p)

\* the debts of p to the roommates for which no instruction is emitted in
\* either direction, added up
SuppressedDebts(s, p) ==
    SumWhere([k \in 1..m |-> [amount |-> Debt(s, p, roommates[k].name)]],
             LAMBDA d : Abs(d.amount) <= Cent)

\* C13 as stated, read with the 0.01 tolerance of the currency: with only
\* equal-split expenses on record, after every instruction is paid in full the
\* net outlay of every roommate is the total of all expenses divided by N.
C13_EqualSplitFair ==
    LET s == settlements
        instructions == settlementInstructions
    IN  OnlyEqualSplit =>
            \A p \in RoommateNames :
                Abs(m * NetOutlay(s, instructions, p) - SumAmounts(expenses)) <= m * Cent

\* C13, amended: with only equal-split expenses on record, after every
\* instruction is paid in full the net outlay of a roommate p is the total
\* divided by N less the debts of p that are held back as not above 0.01 in
\* size; it is therefore within 0.01 * (N - 1) of the total divided by N, and
\* equal to it when no debt of p is held back.
C13_FairUpToHeldBack ==
    LET s == settlements
        instructions == settlementInstructions
    IN  OnlyEqualSplit =>
            \A p \in RoommateNames :
                /\ m * NetOutlay(s, instructions, p)
                     = SumAmounts(expenses) - m * SuppressedDebts(s, p)
                /\ Abs(m * NetOutlay(s, instructions, p) - SumAmounts(expenses))
                     <= m * (m - 1) * Cent

\* three roommates, two of whom spent: one instruction is emitted to the one
\* and a debt to the other is held back
C13_Witness ==
    LET s == settlements
        instructions == settlementInstructions
    IN  /\ OnlyEqualSplit
        /\ m = 3
        /\ Len(expenses) > 1
        /\ \E p \in RoommateNames :
              /\ \E k \in 1..Len(instructions) : instructions[k].from = p
              /\ SuppressedDebts(s, p) # 0

-----------------------------------------------------------------------------
(* C17 *)

\* the debt matrix, row by row, as a list of entries
MatrixEntries(s) ==
    [k \in 1..(m * m) |->
        [amount |-> Debt(s, roommates[LoopPairs[k][1]].name,
                            roommates[LoopPairs[k][2]].name)]]

\* C17: zero-sum.  In every reachable ledger the debts of all ordered pairs of
\* roommates add up to 0, and the amount of every emitted instruction is
\* cancelled by the entry of the opposite pair.
C17_ZeroSum ==
    LET s == settlements
        emitted == settlementInstructions
    IN  /\ SumAmounts(MatrixEntries(s)) = 0
        /\ \A k \in 1..Len(emitted) :
              Debt(s, emitted[k].to, emitted[k].from) = -emitted[k].amount

\* three roommates with two instructions or more, expenses, payments and item
\* debts all at work
C17_Witness ==
    LET s == settlements
    IN  /\ m = 3
        /\ Len(settlementInstructions) > 1
        /\ DOMAIN s.directPayments # {}
        /\ DOMAIN s.sharedPurchaseDebts # {}
        /\ \E p \in RoommateNames : equalShare(s, p) > 0

-----------------------------------------------------------------------------
(* C14 *)

\* the calendar month of a date, <<year, month>>, read off the positions of
\* the digits in "DD-MM-YYYY" and in "YYYY-MM-DD"
CalendarMonth(date) ==
    IF CharAt(date, 3) = "-"
    THEN <<parseInt(SubSeq(date, 7, 10))[1], parseInt(SubSeq(date, 4, 5))[1]>>
    ELSE <<parseInt(SubSeq(date, 1, 4))[1], parseInt(SubSeq(date, 6, 7))[1]>>

\* the calendar month a key "MM-YYYY" of the breakdown names
KeyMonth(monthKey) ==
    <<parseInt(SubSeq(monthKey, 4, 7))[1], parseInt(SubSeq(monthKey, 1, 2))[1]>>

\* the calendar months of the records on the ledger
RecordMonths ==
    { CalendarMonth(expenses[k].date) : k \in 1..Len(expenses) }
    \cup { CalendarMonth(sharedPurchases[k].date) : k \in 1..Len(sharedPurchases) }

\* (from, to, amount) of the instructions of a list, in order
Transfers(instructions) ==
    [k \in 1..Len(instructions) |->
        <<instructions[k].from, instructions[k].to, instructions[k].amount>>]

\* C14: monthly reconciliation.  Whenever every expense and every shared
\* purchase on the ledger is dated within one calendar month, the breakdown has
\* exactly one snapshot and its instructions (from, to, amount) are the
\* all-time instructions.
C14_MonthlyReconciliation ==
    (m > 0 /\ Cardinality(RecordMonths) = 1) =>
        /\ Len(monthlyBreakdown) = 1
        /\ Transfers(monthlyBreakdown[1].instructions) = Transfers(settlementInstructions)

\* what holds of C14: it is so whenever an expense is among the records
C14_WithAnExpense ==
    (m > 0 /\ Cardinality(RecordMonths) = 1 /\ Len(expenses) > 0) =>
        /\ Len(monthlyBreakdown) = 1
        /\ Transfers(monthlyBreakdown[1].instructions) = Transfers(settlementInstructions)

\* only shared purchases are on record, all of one month: there is an all-time
\* instruction and no snapshot
C14_Witness ==
    /\ m > 0
    /\ Cardinality(RecordMonths) = 1
    /\ Len(expenses) = 0
    /\ Len(settlementInstructions) > 0
    /\ Len(monthlyBreakdown) = 0

-----------------------------------------------------------------------------
(* C15 *)

\* the records of a list that are dated in a calendar month
RecordsOfMonth(list, month) == SelectSeq(list, LAMBDA r : CalendarMonth(r.date) = month)

\* aggregates and instructions of the pipeline run on the records of a
\* calendar month alone
PipelineOfMonth(month, expenseList, purchaseList) ==
    LET monthExpenses == RecordsOfMonth(expenseList, month)
        monthPurchases == RecordsOfMonth(purchaseList, month)
        s == calculateSettlements(monthExpenses, monthPurchases)
    IN  [aggregates |-> s,
         instructions |-> getSettlementInstructions(s.purchaseSpending, s.directPayments,
                                                    s.sharedPurchaseDebts,
                                                    monthExpenses, monthPurchases)]

\* every snapshot is the pipeline run on the records of its month alone: no
\* record and no unpaid debt of another month enters it
NoCarryOver ==
    \A k \in 1..Len(monthlyBreakdown) :
        LET snapshot == monthlyBreakdown[k]
            alone == PipelineOfMonth(KeyMonth(snapshot.monthKey), expenses, sharedPurchases)
        IN  /\ snapshot.aggregates = alone.aggregates
            /\ snapshot.instructions = alone.instructions

\* a step that adds or deletes records dated in other months only leaves the
\* snapshot of a month as it was
OtherMonthsLeaveSnapshot ==
    LET before == monthlyBreakdown
        after == MonthWiseBreakdown(expenses', sharedPurchases')
    IN  roommates' = roommates =>
            \A k \in 1..Len(before), l \in 1..Len(after) :
                (/\ before[k].monthKey = after[l].monthKey
                 /\ RecordsOfMonth(expenses', KeyMonth(before[k].monthKey))
                      = RecordsOfMonth(expenses, KeyMonth(before[k].monthKey))
                 /\ RecordsOfMonth(sharedPurchases', KeyMonth(before[k].monthKey))
                      = RecordsOfMonth(sharedPurchases, KeyMonth(before[k].monthKey)))
                => after[l] = before[k]

\* C15: monthly independence.  A month's aggregates and instructions are a
\* function of the records dated in that month only: adding or deleting an
\* expense, settlement or shared purchase dated in another month leaves the
\* month's snapshot unchanged, and a debt left unpaid in one month is not
\* carried into any other month.
C15_MonthlyIndependence == []NoCarryOver /\ [][OtherMonthsLeaveSnapshot]_vars

\* two snapshots or more, each with an unpaid debt, none of them with the
\* instructions of the all-time view
C15_Witness ==
    /\ Len(monthlyBreakdown) > 1
    /\ \A k \in 1..Len(monthlyBreakdown) :
          /\ Len(monthlyBreakdown[k].instructions) > 0
          /\ Transfers(monthlyBreakdown[k].instructions) # Transfers(settlementInstructions)

-----------------------------------------------------------------------------
(* C16 *)

\* the calendar months the snapshots of the breakdown are for, in order
BreakdownMonths == [k \in 1..Len(monthlyBreakdown) |-> KeyMonth(monthlyBreakdown[k].monthKey)]

\* <<year, month>> a is later than b
LaterMonth(a, b) == a[1] > b[1] \/ (a[1] = b[1] /\ a[2] > b[2])

NewestFirst(months) == \A k \in 1..(Len(months) - 1) : LaterMonth(months[k], months[k + 1])

\* C16: the breakdown lists one snapshot per distinct calendar month of the
\* records, expenses and shared purchases, in strictly descending (year, month)
\* order, whatever the order of the records.
C16_OnePerMonthNewestFirst ==
    /\ { BreakdownMonths[k] : k \in 1..Len(BreakdownMonths) } = RecordMonths
    /\ Len(BreakdownMonths) = Cardinality(RecordMonths)
    /\ NewestFirst(BreakdownMonths)

\* what holds of C16: it is so for the calendar months of the expenses
C16_OnePerExpenseMonth ==
    LET expenseMonths == { CalendarMonth(expenses[k].date) : k \in 1..Len(expenses) }
    IN  /\ { BreakdownMonths[k] : k \in 1..Len(BreakdownMonths) } = expenseMonths
        /\ Len(BreakdownMonths) = Cardinality(expenseMonths)
        /\ NewestFirst(BreakdownMonths)

\* a shared purchase is dated in a month in which no expense is: the month has
\* no snapshot, though expenses of two years are listed newest first
C16_Witness ==
    /\ Len(BreakdownMonths) > 1
    /\ BreakdownMonths[1][1] # BreakdownMonths[Len(BreakdownMonths)][1]
    /\ \E k \in 1..Len(sharedPurchases) :
          \A l \in 1..Len(BreakdownMonths) :
              CalendarMonth(sharedPurchases[k].date) # BreakdownMonths[l]

-----------------------------------------------------------------------------
(* C18 *)

\* C18: every expense and every shared purchase in the store has a strictly
\* positive amount (a create request with a zero or negative amount would have
\* been refused).
C18_PositiveAmounts ==
    /\ \A k \in 1..Len(expenses) : expenses[k].amount > 0
    /\ \A k \in 1..Len(sharedPurchases) : sharedPurchases[k].amount > 0

\* POST /api/expenses has just answered 201 to a negative amount, now on record
C18_Witness ==
    /\ response = Answer("POST /api/expenses", 0, 201)
    /\ expenses # <<>>
    /\ expenses[1].amount < 0

\* what the two create endpoints do refuse: an amount of zero
C18_ZeroRefused ==
    [][response'.status = 400 /\ response'.endpoint \in {"POST /api/expenses",
                                                          "POST /api/shared-purchases"}
         => UNCHANGED <<roommates, expenses, sharedPurchases, fixedCosts>>]_vars

-----------------------------------------------------------------------------
(* C19 *)

SettlementWellFormed(expense) ==
    expense.type = Settlement => expense.to # "" /\ expense.to # expense.name

\* C19: in every state of the store, every expense of type Settlement has a
\* recipient that is present and differs from its payer.
C19_SettlementsWellFormed ==
    \A k \in 1..Len(expenses) : SettlementWellFormed(expenses[k])

\* POST /api/import has just answered 200 and the store holds a settlement
\* from A to A and one without recipient
C19_Witness ==
    /\ response = Answer("POST /api/import", 0, 200)
    /\ \E k \in 1..Len(expenses) :
          expenses[k].type = Settlement /\ expenses[k].to = expenses[k].name
    /\ \E k \in 1..Len(expenses) : expenses[k].type = Settlement /\ expenses[k].to = ""

\* the create endpoint alone keeps the settlements well formed
C19_CreateKeepsWellFormed ==
    [][response'.endpoint = "POST /api/expenses" /\ C19_SettlementsWellFormed
         => \A k \in 1..Len(expenses') : SettlementWellFormed(expenses'[k])]_vars

-----------------------------------------------------------------------------
(* C20 *)

DeleteRoommateAnswered == response'.endpoint = "DELETE /api/roommates/:id"

C20_NotFoundWitness ==
    /\ response.endpoint = "DELETE /api/roommates/:id"
    /\ response.status = 404
    /\ expenses # <<>>

-----------------------------------------------------------------------------
(* C22 *)

\* the snapshots of the breakdown whose month subset holds shared purchase k
SnapshotsHolding(k) ==
    { j \in 1..Len(monthlyBreakdown) :
        getMonthYear(sharedPurchases[k].date) = monthlyBreakdown[j].monthKey }

\* an expense on record is dated in the calendar month of shared purchase k
ExpenseInMonthOf(k) ==
    \E e \in 1..Len(expenses) :
        CalendarMonth(expenses[e].date) = CalendarMonth(sharedPurchases[k].date)

\* C22: every shared purchase is in the month subset of exactly one snapshot
\* of the breakdown, and that snapshot is the one of the calendar month of its
\* date, whether or not an expense is dated in that month.
C22_PurchaseInItsSnapshot ==
    \A k \in 1..Len(sharedPurchases) :
        \E j \in 1..Len(monthlyBreakdown) :
            /\ SnapshotsHolding(k) = {j}
            /\ KeyMonth(monthlyBreakdown[j].monthKey) = CalendarMonth(sharedPurchases[k].date)

\* what holds of C22: it is so for the purchases of a month that has an expense
C22_WhenMonthHasExpense ==
    \A k \in 1..Len(sharedPurchases) :
        ExpenseInMonthOf(k) =>
            \E j \in 1..Len(monthlyBreakdown) :
                /\ SnapshotsHolding(k) = {j}
                /\ KeyMonth(monthlyBreakdown[j].monthKey)
                      = CalendarMonth(sharedPurchases[k].date)

\* the breakdown has a snapshot, and a shared purchase that creates a debt is
\* dated in a month without expense and is in no snapshot
C22_Witness ==
    /\ Len(monthlyBreakdown) > 0
    /\ \E k \in 1..Len(sharedPurchases) :
          /\ ~ExpenseInMonthOf(k)
          /\ SnapshotsHolding(k) = {}
          /\ sharedPurchases[k].buyer # sharedPurchases[k].payer

-----------------------------------------------------------------------------
(* C23 *)

\* the note the claim gives the shadow expense of a purchase
ClaimedShadowNote(purchase) ==
    IF purchase.note = "" THEN "Item: " \o purchase.itemName
    ELSE "Item: " \o purchase.itemName \o " - " \o purchase.note

\* the step is the submission of form f, and f passes the checks of the form
Submitted(f) == FormValid(f) /\ handleSubmit(f)

\* C23: a submission of the Item Split form that passes its checks puts one
\* shared purchase with the item, amount, buyer and payer of the form on the
\* list.  When buyer = payer and no split is chosen it also puts one expense on
\* record, with the payer, amount and date of the purchase and the note
\* "Item: <itemName>", followed by " - <note>" if there is a note; with a split
\* chosen or another payer the expenses stay as they are.
C23_FormRecords ==
    [][\A f \in ItemSplitForms :
          Submitted(f) =>
              /\ Len(sharedPurchases') = Len(sharedPurchases) + 1
              /\ Tail(sharedPurchases') = sharedPurchases
              /\ LET purchase == sharedPurchases'[1]
                 IN  /\ purchase.itemName = trim(f.itemName)
                     /\ <<purchase.amount, purchase.buyer, purchase.payer>>
                           = <<f.amount, f.buyer, f.payer>>
                     /\ IF f.buyer = f.payer /\ f.splitBetween = <<>>
                        THEN /\ Len(expenses') = Len(expenses) + 1
                             /\ Tail(expenses') = expenses
                             /\ expenses'[1].name = purchase.payer
                             /\ expenses'[1].amount = purchase.amount
                             /\ expenses'[1].date = purchase.date
                             /\ expenses'[1].type # Settlement
                             /\ expenses'[1].note = ClaimedShadowNote(purchase)
                        ELSE expenses' = expenses]_vars

\* a submission that fails the checks of the form (an amount of 0) adds nothing
C23_RefusedFormAddsNothing ==
    [][\A f \in ItemSplitForms :
          ~FormValid(f) /\ handleSubmit(f) => UNCHANGED <<expenses, sharedPurchases>>]_vars

\* both cases have been submitted: a purchase with a note, whose shadow expense
\* is the one expense on record, and a split whose buyer is the payer
C23_Witness ==
    /\ \E k \in 1..Len(sharedPurchases), e \in 1..Len(expenses) :
          /\ sharedPurchases[k].note # ""
          /\ expenses[e].note = ClaimedShadowNote(sharedPurchases[k])
          /\ expenses[e].name = sharedPurchases[k].payer
    /\ \E k \in 1..Len(sharedPurchases) :
          /\ sharedPurchases[k].buyer = sharedPurchases[k].payer
          /\ sharedPurchases[k].splitBetween # <<>>
    /\ Len(expenses) = 1

-----------------------------------------------------------------------------
(* C24 *)

\* C24: in every state of the store no two roommates have the same name,
\* compared without regard to case and to the spaces around it (an add-roommate
\* request with a name in use would have been refused).
C24_UniqueNames ==
    \A i, j \in 1..Len(roommates) :
        i # j => toLowerCase(trim(roommates[i].name)) # toLowerCase(trim(roommates[j].name))

\* POST /api/roommates has just answered 201 and the list ends with a name
\* that was on it already
C24_Witness ==
    /\ response = Answer("POST /api/roommates", 0, 201)
    /\ \E i \in 1..(Len(roommates) - 1) : roommates[i].name = roommates[Len(roommates)].name

\* what the endpoint does refuse: a name that is on the list as it was sent,
\* in any case
C24_SameTextRefused ==
    [][\A name \in StoreNameRequests :
          /\ PostRoommates(name)
          /\ \E i \in 1..Len(roommates) : toLowerCase(roommates[i].name) = toLowerCase(name)
          => response'.status = 400 /\ roommates' = roommates]_vars

-----------------------------------------------------------------------------
(* C25 *)

\* expense e is the expense the Item Split form put on record together with
\* the purchase
IsFormShadowOf(e, purchase) ==
    /\ purchase.buyer = purchase.payer
    /\ purchase.splitBetween = <<>>
    /\ e.type # Settlement
    /\ <<e.name, e.amount, e.date>> = <<purchase.payer, purchase.amount, purchase.date>>
    /\ e.note = ClaimedShadowNote(purchase)

\* expense k is the form's shadow of a shared purchase that is on the list
HasItsPurchase(k) ==
    \E j \in 1..Len(sharedPurchases) : IsFormShadowOf(expenses[k], sharedPurchases[j])

\* expense k is taken for a duplicate and adds nothing to equalShare
Recognised(k) ==
    /\ isExpenseDuplicate(expenses[k], getLikelyItemSplitKeys(sharedPurchases))
    /\ LET without == calculateSettlements(RemoveAt(expenses, k), sharedPurchases)
       IN  \A p \in Names : equalShare(settlements, p) = equalShare(without, p)

\* C25: while the shadow expense the form created and its shared purchase are
\* both on the ledger, isExpenseDuplicate takes the expense for a duplicate and
\* it adds nothing to equalShare, whatever the item name and the note.
C25_ShadowsRecognised ==
    \A k \in 1..Len(expenses) : HasItsPurchase(k) => Recognised(k)

\* what holds of C25: it is so when the item name has no '-' in it
C25_WithoutHyphen ==
    \A k \in 1..Len(expenses) :
        (\E j \in 1..Len(sharedPurchases) :
            /\ IsFormShadowOf(expenses[k], sharedPurchases[j])
            /\ ~includes(sharedPurchases[j].itemName, "-"))
        => Recognised(k)

\* the purchase "Co-op" and its shadow expense are on the ledger; the item
\* name read from the note is "Co", and the expense is counted in equalShare
C25_Witness ==
    \E k \in 1..Len(expenses) :
        /\ HasItsPurchase(k)
        /\ expenses[k].note = "Item: Co-op - weekly"
        /\ matchItem(expenses[k].note) = <<"Co">>
        /\ ~isExpenseDuplicate(expenses[k], getLikelyItemSplitKeys(sharedPurchases))
        /\ equalShare(settlements, expenses[k].name) >= expenses[k].amount

\* the shadow of " Olive Oil" with the note "2 L - tin " is recognised
C25_RecognisedWitness ==
    \E k \in 1..Len(expenses) :
        /\ HasItsPurchase(k)
        /\ expenses[k].note = "Item: Olive Oil - 2 L - tin"
        /\ Recognised(k)

-----------------------------------------------------------------------------
(* C26 *)

PurchaseKey(purchase) ==
    ItemKey(purchase.payer, purchase.amount, toLowerCase(purchase.itemName))

\* the expenses that calculateSettlements leaves out of equalShare as
\* duplicates of the key
DroppedFor(key) ==
    { k \in 1..Len(expenses) :
        /\ expenses[k].type # Settlement
        /\ isExpenseDuplicate(expenses[k], getLikelyItemSplitKeys(sharedPurchases))
        /\ ItemKey(expenses[k].name, expenses[k].amount,
                   toLowerCase(trim(matchItem(expenses[k].note)[1]))) = key }

\* the shared purchases that carry the key
CarriedBy(key) == { j \in 1..Len(sharedPurchases) : PurchaseKey(sharedPurchases[j]) = key }

\* C26: deduplication is one for one.  For every key (payer, amount, item
\* name) no more expenses are left out of equalShare as duplicates of the key
\* than there are shared purchases that carry it.
C26_OneForOne ==
    \A key \in getLikelyItemSplitKeys(sharedPurchases) :
        Cardinality(DroppedFor(key)) <= Cardinality(CarriedBy(key))

\* what holds of C26: an expense is left out only if some shared purchase
\* carries its key
C26_DroppedHasPurchase ==
    \A k \in 1..Len(expenses) :
        (/\ expenses[k].type # Settlement
         /\ isExpenseDuplicate(expenses[k], getLikelyItemSplitKeys(sharedPurchases)))
        => \E key \in getLikelyItemSplitKeys(sharedPurchases) :
               k \in DroppedFor(key) /\ CarriedBy(key) # {}

\* one purchase of rice for 120 by A, and two expenses of A left out for it:
\* nothing of the 240 A spent is in equalShare
C26_Witness ==
    /\ m > 0
    /\ \E key \in getLikelyItemSplitKeys(sharedPurchases) :
          /\ Cardinality(CarriedBy(key)) = 1
          /\ Cardinality(DroppedFor(key)) = 2
    /\ Len(expenses) = 2
    /\ equalShare(settlements, "A") = 0

-----------------------------------------------------------------------------
(* C30 *)

\* what shared purchase k charges each member of its split: the debt to the
\* payer it creates for another member, the own share for the payer
SplitCharges(k) ==
    LET purchase == sharedPurchases[k]
        s == settlements
        without == WithoutPurchase(k)
    IN  [x \in 1..Len(purchase.splitBetween) |->
            [amount |->
                IF purchase.splitBetween[x] # purchase.payer
                THEN itemDebts(s, purchase.splitBetween[x], purchase.payer)
                       - itemDebts(without, purchase.splitBetween[x], purchase.payer)
                ELSE PerPerson(purchase)]]

\* shared purchase k was entered with a split
HasSplit(k) ==
    /\ sharedPurchases[k].splitBetween # <<>>
    /\ sharedPurchases[k].perPersonAmount # Undefined

\* C30: split conservation.  For every shared purchase entered through the
\* form with a split, perPersonAmount times the number of members is the
\* amount of the purchase, and when the payer is a member the debts created
\* for the other members and the payer's own share add up to the amount paid.
C30_SplitConservation ==
    \A k \in 1..Len(sharedPurchases) :
        HasSplit(k) =>
            LET purchase == sharedPurchases[k]
            IN  /\ purchase.perPersonAmount[1] * Len(purchase.splitBetween) = purchase.amount
                /\ purchase.payer \in Members(purchase)
                      => SumAmounts(SplitCharges(k)) = purchase.amount

\* what holds of C30: the shares add up to the amount within half a cent
\* for each member
C30_WithinRounding ==
    \A k \in 1..Len(sharedPurchases) :
        HasSplit(k) =>
            LET purchase == sharedPurchases[k]
                n == Len(purchase.splitBetween)
            IN  /\ 2 * Abs(purchase.perPersonAmount[1] * n - purchase.amount) <= n * Cent
                /\ purchase.payer \in Members(purchase)
                      => 2 * Abs(SumAmounts(SplitCharges(k)) - purchase.amount) <= n * Cent

\* tea for 100 paid by B and split between three: A and C owe 33.33 each, and
\* with B's own 33.33 that makes 99.99
C30_Witness ==
    \E k \in 1..Len(sharedPurchases) :
        /\ HasSplit(k)
        /\ sharedPurchases[k].amount = Rs(100, 0)
        /\ Len(sharedPurchases[k].splitBetween) = 3
        /\ sharedPurchases[k].perPersonAmount = <<Rs(33, 33)>>
        /\ sharedPurchases[k].payer \in Members(sharedPurchases[k])
        /\ SumAmounts(SplitCharges(k)) = Rs(99, 99)

\* soap for 60 split between two: the shares add up
C30_ExactWitness ==
    \E k \in 1..Len(sharedPurchases) :
        /\ HasSplit(k)
        /\ sharedPurchases[k].perPersonAmount = <<Rs(30, 0)>>
        /\ SumAmounts(SplitCharges(k)) = sharedPurchases[k].amount

-----------------------------------------------------------------------------
(* C27 *)

\* the instructions of the all-time view of two lists
InstructionsOf(expenseList, purchaseList) ==
    LET s == calculateSettlements(expenseList, purchaseList)
    IN  getSettlementInstructions(s.purchaseSpending, s.directPayments,
                                  s.sharedPurchaseDebts, expenseList, purchaseList)

\* what the amount box holds when the default amount is paid: the prefilled
\* amount, or nothing, or 0
DefaultPayAmounts(defaultAmount) == { <<RoundToCent(defaultAmount)>>, <<>>, <<0>> }

\* the step puts a settlement on the ledger
RecordsSettlement ==
    /\ Len(expenses') = Len(expenses) + 1
    /\ Head(expenses').type = Settlement

\* the step records the default amount of the k-th instruction (an amount
\* above 0.01, so a settlement is recorded)
PaysDefault(k) ==
    /\ RecordsSettlement
    /\ k \in 1..Len(settlementInstructions)
    /\ \E payAmount \in DefaultPayAmounts(settlementInstructions[k].amount) :
          handleRecordPayment(k, payAmount)

\* there is at most one instruction for each pair of roommates
AtMostOnePerPair == 2 * Len(settlementInstructions) <= m * (m - 1)

\* the payment takes the instruction it pays off the list and leaves the
\* other instructions as they were
PaymentRemovesInstruction ==
    RecordsSettlement =>
        LET shown == settlementInstructions
        IN  \A k \in 1..Len(shown) :
                PaysDefault(k) =>
                    Transfers(InstructionsOf(expenses', sharedPurchases))
                        = RemoveAt(Transfers(shown), k)

\* C27: settling terminates.  The list of the all-time view has at most
\* N(N-1)/2 instructions, and every payment of the default amount of an
\* instruction removes that instruction and creates no other; the list is
\* therefore empty after at most N(N-1)/2 such payments.
C27_SettlingTerminates == []AtMostOnePerPair /\ [][PaymentRemovesInstruction]_vars

\* three roommates, A paid 100: B and C owed 33.33..., both paid the prefilled
\* 33.33, and no instruction is left
C27_Witness ==
    /\ m = 3
    /\ Len(expenses) = 3
    /\ expenses[1].type = Settlement /\ expenses[1].amount = Rs(33, 33)
    /\ expenses[2].type = Settlement /\ expenses[2].amount = Rs(33, 33)
    /\ Len(InstructionsOf(Tail(Tail(expenses)), sharedPurchases)) = 2
    /\ Len(InstructionsOf(Tail(expenses), sharedPurchases)) = 1
    /\ settlementInstructions = <<>>

-----------------------------------------------------------------------------
(* C28 *)

\* the instructions of the view once the step is done; the range is the one
\* of the view before
ViewAfter ==
    InstructionsOf(FilterByRange(expenses', startDate, endDate),
                   FilterByRange(sharedPurchases', startDate, endDate))

\* no instruction of the list is between the two
Settled(instructions, a, b) ==
    \A x \in 1..Len(instructions) :
        {instructions[x].from, instructions[x].to} # {a, b}

\* C28: once handleRecordPayment has recorded the default amount of an
\* instruction from i to j of the view, the instructions of that same view
\* hold no instruction from i to j and none from j to i, whatever the date
\* range of the view.
C28_PaidInstructionGone ==
    [][\A k \in 1..Len(settlementInstructions) :
          PaysDefault(k) =>
              Settled(ViewAfter, settlementInstructions[k].from,
                      settlementInstructions[k].to)]_vars

\* today is within the date range of the view
TodayInRange == isDateInRange(formatDateToDDMMYYYY(TodayISO), startDate, endDate)

\* what holds of C28: it is so when today, the date the payment is recorded
\* under, is within the date range of the view
C28_WhenTodayInRange ==
    [][\A k \in 1..Len(settlementInstructions) :
          PaysDefault(k) /\ TodayInRange =>
              Settled(ViewAfter, settlementInstructions[k].from,
                      settlementInstructions[k].to)]_vars

\* the view ends with March 2024 and shows an instruction; the payment of its
\* amount is on record, dated today, and the view shows the instruction still
C28_Witness ==
    /\ endDate = "31-03-2024"
    /\ expenses # <<>>
    /\ Head(expenses).type = Settlement
    /\ Head(expenses).date = "02-04-2024"
    /\ \E k \in 1..Len(settlementInstructions) :
          /\ settlementInstructions[k].from = Head(expenses).name
          /\ settlementInstructions[k].to = Head(expenses).to
          /\ settlementInstructions[k].amount = Head(expenses).amount
    /\ Settled(InstructionsOf(expenses, sharedPurchases), Head(expenses).name,
               Head(expenses).to)

-----------------------------------------------------------------------------
(* C29 *)

\* the counterparts listed in a breakdown of the history of a roommate
DueTo(r) ==
    LET history == calculateRoommateHistory(r)
    IN  { history.dueBreakdown[k].to : k \in 1..Len(history.dueBreakdown) }

OwedBy(r) ==
    LET history == calculateRoommateHistory(r)
    IN  { history.owedBreakdown[k].from : k \in 1..Len(history.owedBreakdown) }

\* the amount a breakdown lists for a counterpart
DueAmount(r, x) ==
    LET list == calculateRoommateHistory(r).dueBreakdown
    IN  list[CHOOSE k \in 1..Len(list) : list[k].to = x].amount

OwedAmount(r, x) ==
    LET list == calculateRoommateHistory(r).owedBreakdown
    IN  list[CHOOSE k \in 1..Len(list) : list[k].from = x].amount

\* what r is reported to owe x is what the history of x reports as owed by r
HistoriesAgree ==
    \A r, x \in RoommateNames :
        /\ x \in DueTo(r) <=> r \in OwedBy(x)
        /\ x \in DueTo(r) => DueAmount(r, x) = OwedAmount(x, r)

\* no history lists a counterpart in both breakdowns
OneDirection == \A r \in RoommateNames : DueTo(r) \cap OwedBy(r) = {}

\* C29: the history of a roommate never lists the same counterpart both in
\* dueBreakdown and in owedBreakdown, and the amount a roommate is reported to
\* owe a counterpart is the amount the counterpart's history reports as owed
\* by that roommate.
C29_HistoryOneDirection == m > 0 => OneDirection /\ HistoriesAgree

\* what holds of C29: the histories of two roommates agree on every debt
C29_HistoriesAgree == m > 0 => HistoriesAgree

\* B owes A the milk A paid for (40) and A owes B half of the rent B paid
\* (30): the history of B lists A under due (10) and under owed (30), while
\* the matrix has the one debt of 10 from B to A
C29_Witness ==
    /\ m = 2
    /\ "A" \in DueTo("B") /\ "A" \in OwedBy("B")
    /\ DueAmount("B", "A") = Rs(10, 0)
    /\ OwedAmount("B", "A") = Rs(30, 0)
    /\ Debt(settlements, "B", "A") = Rs(10, 0)

-----------------------------------------------------------------------------
(* C21 *)

\* the paid ids a list of roommates does not account for
Orphans(paid, list) == { paid[i] : i \in 1..Len(paid) } \ IdsOf(list)

\* C21: in every state, on the client and on the server, and also while a
\* paid-status toggle and a deletion of a roommate are in flight together,
\* every id in paidRoommateIds is the id of an existing roommate.
C21_PaidAreRoommates ==
    /\ Orphans(paidRoommateIds, roommates) = {}
    /\ Orphans(dataFile.paidRoommateIds, dataFile.roommates) = {}

\* both calls have finished, and the client and the file alike hold the paid
\* status of a roommate that neither has any more
C21_Witness ==
    /\ calls = <<>>
    /\ roommates = dataFile.roommates
    /\ Orphans(paidRoommateIds, roommates) # {}
    /\ Orphans(dataFile.paidRoommateIds, dataFile.roommates) # {}

\* the deletion itself purges: when the server handles the DELETE the id is
\* in neither list of the file afterwards, and when removeRoommate resumes
\* after a successful DELETE the id is in neither list of the client
C21_DeletionPurges ==
    [][\A k \in 1..Len(calls) :
          /\ DeleteRoommatesOfFile(k) =>
                /\ calls[k].id \notin IdsOf(dataFile'.roommates)
                /\ ~IdIn(dataFile'.paidRoommateIds, calls[k].id)
          /\ (removeRoommateResumes(k) /\ calls[k].ok) =>
                /\ calls[k].id \notin IdsOf(roommates')
                /\ ~IdIn(paidRoommateIds', calls[k].id)]_vars

\* a DELETE has been handled and a roommate has left the list of the client
C21_PurgeWitness ==
    /\ Len(dataFile.roommates) < 2
    /\ Len(roommates) < 2
    /\ dataFile.paidRoommateIds # <<>>

====
